---- MODULE Spec2Model ----
\* Kese: the radix-tree router (src/router/router.go, the pooled version at
\* lines 208-435).  Strings are sequences of one-character strings, so that
\* splitPath, strings.HasPrefix and segment[1:] are computed character by
\* character as the Go code computes them.
EXTENDS Integers, Sequences, FiniteSets, TLC

VARIABLES
    trees,      \* Router.trees: method -> root node
    nodes,      \* the nodes allocated so far; a *node[T] is an index
    log,        \* history: the Add calls made, in order
    pool,       \* paramsPool: the buffers put back and not taken again
    arrays,     \* the heap: the backing arrays of the live Params slices
    running,    \* per goroutine, the Match call it is running
    returned,   \* per goroutine, the result of its last call, which it keeps
    begun,      \* history: the number of Match calls begun
    ps,         \* a Params value that handler code holds
    got,        \* the key and the result of the last call of Params.Get on it
    middleware, \* App.middleware
    order,      \* what the middleware and the handler of the request appended
    response,   \* what the request wrote to its http.ResponseWriter
    ctx,        \* the Context of the request
    counter,    \* the atomic.Uint64 of one RequestID middleware
    handling,   \* per goroutine, the request the middleware is handling
    issued,     \* history: the X-Request-ID headers set, in order
    limitNow,   \* time.Now() as the rate limit store reads it
    data,       \* ratelimit.MemoryStore.data: key -> entry
    limiting,   \* per goroutine, the request the RateLimit middleware handles
    windows,    \* history: the counter entries created, with what they counted
    started,    \* history: the number of requests the RateLimit middleware got
    cacheNow,   \* time.Now() as the cache store reads it
    items,      \* cache.MemoryStore.items: key -> item
    served,     \* the last request the Cache middleware handled
    cacheCalls  \* history: the number of requests the Cache middleware got

routerVars == <<trees, nodes, log>>
poolVars == <<pool, arrays, running, returned, begun>>
paramVars == <<ps, got>>
appVars == <<middleware, order, response, ctx>>
ridVars == <<counter, handling, issued>>
limitVars == <<limitNow, data, limiting, windows, started>>
cacheVars == <<cacheNow, items, served, cacheCalls>>
vars == <<trees, nodes, log, pool, arrays, running, returned, begun,
          ps, got, middleware, order, response, ctx, counter, handling, issued,
          limitNow, data, limiting, windows, started,
          cacheNow, items, served, cacheCalls>>

\* ---------------------------------------------------------------- bounds

\* Number of Add calls in one run.
MaxAdds == 2

\* Number of Match calls begun in one run of the serving phase.
MaxCalls == 3

\* Number of entries of a Params value that handler code holds.
MaxParams == 3

\* Number of middleware and routes registered with one App in one run.
MaxSetup == 3

\* Number of requests one middleware (RequestID, RateLimit, Cache) handles
\* in one run.
MaxRequests == 4

\* The last reading of the clock in one run.
MaxClock == 3

\* ------------------------------------------------------------- constants

\* A nil *node[T].
NilNode == 0

\* The zero value of the handler type T (T = string in the tests).
ZeroT == ""

\* make(Params, 0, 4): the capacity of a pooled buffer.
PoolCap == 4

\* The zero value of Param.
ZeroParam == [Key |-> <<>>, Value |-> <<>>]

\* A nil Params: no backing array.
NilSlice == [arr |-> 0, len |-> 0]

\* ----------------------------------------------------------- strings

\* strings.TrimLeft(s, "/")
RECURSIVE TrimLeft(_)
TrimLeft(s) ==
    IF s # <<>> /\ Head(s) = "/" THEN TrimLeft(Tail(s)) ELSE s

\* strings.TrimRight(s, "/")
RECURSIVE TrimRight(_)
TrimRight(s) ==
    IF s # <<>> /\ s[Len(s)] = "/" THEN TrimRight(SubSeq(s, 1, Len(s) - 1)) ELSE s

\* strings.Trim(s, "/")
Trim(s) == TrimRight(TrimLeft(s))

\* strings.Split(s, "/") for a non-empty s: every "/" ends one element, so
\* two adjacent slashes give an empty element.  acc is the element being read.
RECURSIVE SplitFrom(_, _, _)
SplitFrom(s, i, acc) ==
    IF i > Len(s) THEN <<acc>>
    ELSE IF s[i] = "/" THEN <<acc>> \o SplitFrom(s, i + 1, <<>>)
    ELSE SplitFrom(s, i + 1, Append(acc, s[i]))

Split(s) == SplitFrom(s, 1, <<>>)

NonEmpty(segment) == segment # <<>>

\* splitPath that keeps the empty segments.
splitPathKeepEmpty(path) ==
    LET trimmed == Trim(path)
    IN  IF trimmed = <<>> THEN <<>>
        ELSE Split(trimmed)

\* splitPath: trim the slashes, split on "/", drop the empty segments.
splitPath(path) ==
    LET trimmed == Trim(path)
    IN  IF trimmed = <<>> THEN <<>>
        ELSE SelectSeq(Split(trimmed), NonEmpty)

\* strings.HasPrefix(segment, ":")
HasColonPrefix(segment) == segment # <<>> /\ Head(segment) = ":"

\* ------------------------------------------------------------- the tree

\* An empty children map.
NoChildren == [s \in {} |-> NilNode]

\* &node[T]{path: ..., paramName: ..., children: make(map)}; the other
\* fields keep their zero values.
NewNode(path, paramName) ==
    [path |-> path, children |-> NoChildren, paramChild |-> NilNode,
     paramName |-> paramName, handler |-> ZeroT, isLeaf |-> FALSE]

\* map assignment m[k] = v
MapPut(m, k, v) == [s \in DOMAIN m \cup {k} |-> IF s = k THEN v ELSE m[s]]

\* current.handler = handler; current.isLeaf = true
SetLeafFresh(ns, current, handler) ==
    [ns EXCEPT ![current] = [NewNode(ns[current].path, ns[current].paramName)
                                EXCEPT !.handler = handler, !.isLeaf = TRUE]]

SetLeaf(ns, current, handler) ==
    [ns EXCEPT ![current].handler = handler, ![current].isLeaf = TRUE]

\* AddParam that gives a parameter child that exists the new name.
AddParamRename(ns, current, segment) ==
    IF ns[current].paramChild = NilNode
    THEN LET id == Len(ns) + 1
         IN  [nodes |-> Append([ns EXCEPT ![current].paramChild = id],
                               NewNode(segment, Tail(segment))),
              next |-> id]
    ELSE [nodes |-> [ns EXCEPT ![ns[current].paramChild].paramName = Tail(segment)],
          next |-> ns[current].paramChild]

\* The parameter branch of Add's loop body: create the parameter child if the
\* node has none, descend.
AddParam(ns, current, segment) ==
    IF ns[current].paramChild = NilNode
    THEN LET id == Len(ns) + 1
         IN  [nodes |-> Append([ns EXCEPT ![current].paramChild = id],
                               NewNode(segment, Tail(segment))),
              next |-> id]
    ELSE [nodes |-> ns, next |-> ns[current].paramChild]

\* The static branch of Add's loop body: look the child up, create it if
\* absent, descend.
AddStatic(ns, current, segment) ==
    IF segment \in DOMAIN ns[current].children
    THEN [nodes |-> ns, next |-> ns[current].children[segment]]
    ELSE LET id == Len(ns) + 1
         IN  [nodes |-> Append([ns EXCEPT ![current].children =
                                   MapPut(@, segment, id)],
                               NewNode(segment, <<>>)),
              next |-> id]

\* AddWalk without the test for ":": every segment is a static key.
RECURSIVE AddWalkAllStatic(_, _, _, _, _)
AddWalkAllStatic(ns, segments, i, current, handler) ==
    IF i > Len(segments) THEN ns
    ELSE LET step == AddStatic(ns, current, segments[i])
             after == IF i = Len(segments) THEN SetLeaf(step.nodes, step.next, handler)
                      ELSE step.nodes
         IN  AddWalkAllStatic(after, segments, i + 1, step.next, handler)

\* Add's loop over the segments, from segment i at node current.
RECURSIVE AddWalk(_, _, _, _, _)
AddWalk(ns, segments, i, current, handler) ==
    IF i > Len(segments) THEN ns
    ELSE LET segment == segments[i]
             isLast == i = Len(segments)
             step == IF HasColonPrefix(segment)
                     THEN AddParam(ns, current, segment)
                     ELSE AddStatic(ns, current, segment)
             after == IF isLast THEN SetLeaf(step.nodes, step.next, handler)
                      ELSE step.nodes
         IN  AddWalk(after, segments, i + 1, step.next, handler)

\* EnsureRoot that makes a new root at every call.
EnsureRootFresh(R, method) ==
    [trees |-> MapPut(R.trees, method, Len(R.nodes) + 1),
     nodes |-> Append(R.nodes, NewNode(<<"/">>, <<>>))]

\* EnsureRoot that gives a new method the root of a tree that exists.
EnsureRootShared(R, method) ==
    IF method \in DOMAIN R.trees THEN R
    ELSE IF DOMAIN R.trees # {}
    THEN [R EXCEPT !.trees = MapPut(@, method,
                                    R.trees[CHOOSE m \in DOMAIN R.trees : TRUE])]
    ELSE [trees |-> MapPut(R.trees, method, Len(R.nodes) + 1),
          nodes |-> Append(R.nodes, NewNode(<<"/">>, <<>>))]

\* Get or create the tree for the method.
EnsureRoot(R, method) ==
    IF method \in DOMAIN R.trees THEN R
    ELSE [trees |-> MapPut(R.trees, method, Len(R.nodes) + 1),
          nodes |-> Append(R.nodes, NewNode(<<"/">>, <<>>))]

\* A lookup that creates the tree of a method that has none, as Add does.
LookupTreeCreate(R, method) == EnsureRoot(R, method)

\* root, ok := r.trees[method] in Match: the router after the lookup.  Reading
\* a Go map adds no entry.
LookupTree(R, method) == R

\* Router.Add on the router value R = [trees, nodes].
AddOp(R, method, path, handler) ==
    LET R1 == EnsureRoot(R, method)
        root == R1.trees[method]
    IN  IF path = <<"/">>
        THEN [R1 EXCEPT !.nodes = SetLeaf(@, root, handler)]
        ELSE [R1 EXCEPT !.nodes = AddWalk(@, splitPath(path), 1, root, handler)]

\* ------------------------------------------------------------- matching

\* return zero, nil, false
NotFound == [handler |-> ZeroT, params |-> <<>>, isNil |-> TRUE, found |-> FALSE]

\* return handler, result, true  (result is made by make: never nil)
Found(handler, params) ==
    [handler |-> handler, params |-> params, isNil |-> FALSE, found |-> TRUE]

\* MatchStep with the two tests swapped: the parameter child is tried first.
MatchStepParamFirst(ns, current, segment) ==
    IF ns[current].paramChild # NilNode
    THEN [ok |-> TRUE, next |-> ns[current].paramChild,
          bind |-> <<[Key |-> ns[ns[current].paramChild].paramName,
                      Value |-> segment]>>]
    ELSE IF segment \in DOMAIN ns[current].children
    THEN [ok |-> TRUE, next |-> ns[current].children[segment], bind |-> <<>>]
    ELSE [ok |-> FALSE, next |-> NilNode, bind |-> <<>>]

\* One iteration of Match's loop at node current: the static child first,
\* then the parameter child, else no match.
MatchStep(ns, current, segment) ==
    IF segment \in DOMAIN ns[current].children
    THEN [ok |-> TRUE, next |-> ns[current].children[segment], bind |-> <<>>]
    ELSE IF ns[current].paramChild # NilNode
    THEN [ok |-> TRUE, next |-> ns[current].paramChild,
          bind |-> <<[Key |-> ns[ns[current].paramChild].paramName,
                      Value |-> segment]>>]
    ELSE [ok |-> FALSE, next |-> NilNode, bind |-> <<>>]

\* MatchWalk that retries the parameter child when the static branch fails.
RECURSIVE MatchWalkBacktrack(_, _, _, _, _)
MatchWalkBacktrack(ns, segments, i, current, params) ==
    IF i > Len(segments)
    THEN IF ns[current].isLeaf THEN Found(ns[current].handler, params)
         ELSE NotFound
    ELSE LET segment == segments[i]
             viaStatic ==
                 IF segment \in DOMAIN ns[current].children
                 THEN MatchWalkBacktrack(ns, segments, i + 1,
                                         ns[current].children[segment], params)
                 ELSE NotFound
             pc == ns[current].paramChild
         IN  IF viaStatic.found \/ pc = NilNode THEN viaStatic
             ELSE MatchWalkBacktrack(ns, segments, i + 1, pc,
                     Append(params, [Key |-> ns[pc].paramName, Value |-> segment]))

\* MatchWalk that puts each new binding in front of the earlier ones.
RECURSIVE MatchWalkPrepend(_, _, _, _, _)
MatchWalkPrepend(ns, segments, i, current, params) ==
    IF i > Len(segments)
    THEN IF ns[current].isLeaf THEN Found(ns[current].handler, params)
         ELSE NotFound
    ELSE LET step == MatchStep(ns, current, segments[i])
         IN  IF step.ok
             THEN MatchWalkPrepend(ns, segments, i + 1, step.next, step.bind \o params)
             ELSE NotFound

\* MatchWalk that hands back, on a failure, the params collected so far.
RECURSIVE MatchWalkLeak(_, _, _, _, _)
MatchWalkLeak(ns, segments, i, current, params) ==
    IF i > Len(segments)
    THEN IF ns[current].isLeaf THEN Found(ns[current].handler, params)
         ELSE [handler |-> ZeroT, params |-> params, isNil |-> FALSE, found |-> FALSE]
    ELSE LET step == MatchStep(ns, current, segments[i])
         IN  IF step.ok
             THEN MatchWalkLeak(ns, segments, i + 1, step.next, params \o step.bind)
             ELSE [handler |-> ZeroT, params |-> params, isNil |-> FALSE, found |-> FALSE]

\* MatchWalk without the leaf check: any node reached is a hit.
RECURSIVE MatchWalkAnyNode(_, _, _, _, _)
MatchWalkAnyNode(ns, segments, i, current, params) ==
    IF i > Len(segments)
    THEN Found(ns[current].handler, params)
    ELSE LET step == MatchStep(ns, current, segments[i])
         IN  IF step.ok
             THEN MatchWalkAnyNode(ns, segments, i + 1, step.next, params \o step.bind)
             ELSE NotFound

\* Match's loop and the leaf check after it.
RECURSIVE MatchWalk(_, _, _, _, _)
MatchWalk(ns, segments, i, current, params) ==
    IF i > Len(segments)
    THEN IF ns[current].isLeaf THEN Found(ns[current].handler, params)
         ELSE NotFound
    ELSE LET step == MatchStep(ns, current, segments[i])
         IN  IF step.ok
             THEN MatchWalk(ns, segments, i + 1, step.next, params \o step.bind)
             ELSE NotFound

\* Match that gives up on a path without segments other than "/".
MatchOpEmptyMiss(R, method, path) ==
    IF method \notin DOMAIN R.trees THEN NotFound
    ELSE LET root == R.trees[method]
         IN  IF path = <<"/">>
             THEN IF R.nodes[root].isLeaf
                  THEN Found(R.nodes[root].handler, <<>>)
                  ELSE NotFound
             ELSE IF splitPath(path) = <<>> THEN NotFound
             ELSE MatchWalk(R.nodes, splitPath(path), 1, root, <<>>)

\* Router.Match on the router value R, as one call running alone returns.
MatchOp(R, method, path) ==
    IF method \notin DOMAIN R.trees THEN NotFound
    ELSE LET root == R.trees[method]
         IN  IF path = <<"/">>
             THEN IF R.nodes[root].isLeaf
                  THEN Found(R.nodes[root].handler, <<>>)
                  ELSE NotFound
             ELSE MatchWalk(R.nodes, splitPath(path), 1, root, <<>>)

\* Params.Get that keeps scanning and returns the last entry with the key.
RECURSIVE GetLast(_, _)
GetLast(params, name) ==
    IF params = <<>> THEN <<>>
    ELSE IF params[Len(params)].Key = name THEN params[Len(params)].Value
    ELSE GetLast(SubSeq(params, 1, Len(params) - 1), name)

\* Params.Get: the entries are scanned from the first; the value of the
\* first one with the key is returned, the empty string after the last.
RECURSIVE Get(_, _)
Get(params, name) ==
    IF params = <<>> THEN <<>>
    ELSE IF Head(params).Key = name THEN Head(params).Value
    ELSE Get(Tail(params), name)

\* ------------------------------------------------- slices and the pool

\* The heap: arrays maps the address of each live backing array to its
\* elements.  An allocation takes the lowest free address.
NoArrays == [a \in {} |-> <<>>]
FreshArray(arrs) ==
    CHOOSE a \in 1..(Cardinality(DOMAIN arrs) + 1) :
        a \notin DOMAIN arrs /\ \A a2 \in 1..(a - 1) : a2 \in DOMAIN arrs

\* paramsPool.New: p := make(Params, 0, 4); return &p.  The pooled *Params is
\* never written through, so it always holds (array, len 0, cap 4): a pooled
\* buffer is the address of its backing array.
NewBuffer(arrs) == MapPut(arrs, FreshArray(arrs), [j \in 1..PoolCap |-> ZeroParam])

\* PoolTake that leaves the buffer in the pool.
PoolTakeKeep(pl, b) == pl

\* paramsPool.Get takes the buffer out of the pool.
PoolTake(pl, b) == pl \ {b}

\* PoolPut that puts nothing back.
PoolPutNone(pl, b) == pl

\* paramsPool.Put(paramsPtr)
PoolPut(pl, b) == pl \cup {b}

\* params := (*paramsPtr)[:0]
ResetSlice(b) == [arr |-> b, len |-> 0]

\* params = append(params, param): in place while the capacity lasts, else
\* into a new array of twice the capacity.
AppendParam(arrs, hdr, param) ==
    IF hdr.len < Len(arrs[hdr.arr])
    THEN [arrays |-> [arrs EXCEPT ![hdr.arr][hdr.len + 1] = param],
          hdr |-> [hdr EXCEPT !.len = @ + 1]]
    ELSE [arrays |-> MapPut(arrs, FreshArray(arrs),
                        [j \in 1..(2 * Len(arrs[hdr.arr])) |->
                            IF j <= hdr.len THEN arrs[hdr.arr][j]
                            ELSE IF j = hdr.len + 1 THEN param
                            ELSE ZeroParam]),
          hdr |-> [arr |-> FreshArray(arrs), len |-> hdr.len + 1]]

\* CopyOut without the copy: the slice over the pooled array is returned.
CopyOutAlias(arrs, hdr) == [arrays |-> arrs, res |-> hdr]

\* result := make(Params, len(params)); copy(result, params)
CopyOut(arrs, hdr) ==
    [arrays |-> MapPut(arrs, FreshArray(arrs), [j \in 1..hdr.len |-> arrs[hdr.arr][j]]),
     res |-> [arr |-> FreshArray(arrs), len |-> hdr.len]]

\* The elements of a slice.
ReadSlice(arrs, hdr) == [j \in 1..hdr.len |-> arrs[hdr.arr][j]]

\* The arrays a pooled buffer, a local of a running call or a kept result
\* refers to.
Live(pl, run, ret) ==
    pl \cup UNION { {run[g].ptr, run[g].params.arr, run[g].result.arr}
                    \cup {ret[g][k].res.arr : k \in DOMAIN ret[g]} : g \in DOMAIN run }

\* The heap after the garbage collector dropped the arrays nothing refers to.
Collect(arrs, live) == [a \in DOMAIN arrs \cap live |-> arrs[a]]

\* ---------------------------------------------------------------- inputs

\* Registration methods; DELETE is requested but never registered.
AddMethods == {"GET", "POST"}
Methods == AddMethods \cup {"DELETE"}

Handlers == {"h1", "h2"}

\* Registration paths: / , // , /a , /a/ , /a/b , /a/:x , /a/:y , /a/:x/c ,
\* /a/:x/c/:y , /a/:x/c/:x , /a//b
RegPaths ==
    { <<"/">>, <<"/", "/">>,
      <<"/", "a">>, <<"/", "a", "/">>,
      <<"/", "a", "/", "b">>,
      <<"/", "a", "/", ":", "x">>,
      <<"/", "a", "/", ":", "y">>,
      <<"/", "a", "/", ":", "x", "/", "c">>,
      <<"/", "a", "/", ":", "x", "/", "c", "/", ":", "y">>,
      <<"/", "a", "/", ":", "x", "/", "c", "/", ":", "x">>,
      <<"/", "a", "/", "/", "b">> }

\* Registration paths of the second method: /a , /a/:x
PostPaths == { <<"/", "a">>, <<"/", "a", "/", ":", "x">> }

\* The (method, path) pairs Add is called with.
AddInputs == ({"GET"} \X RegPaths) \cup ({"POST"} \X PostPaths)

\* Request paths: the empty string, / , // , /a , /a/ , //a// , /a/b , /a/z ,
\* /a/b/c , /a/z/c , /a/z/c/w , /z , a/b , /a//b , /a//c
ReqPaths ==
    { <<>>, <<"/">>, <<"/", "/">>,
      <<"/", "a">>, <<"/", "a", "/">>, <<"/", "/", "a", "/", "/">>,
      <<"/", "a", "/", "b">>, <<"/", "a", "/", "z">>,
      <<"/", "a", "/", "b", "/", "c">>,
      <<"/", "a", "/", "z", "/", "c">>,
      <<"/", "a", "/", "z", "/", "c", "/", "w">>,
      <<"/", "z">>, <<"a", "/", "b">>, <<"/", "a", "/", "/", "b">>,
      <<"/", "a", "/", "/", "c">> }

\* The goroutines that serve requests.
Goroutines == {"g1", "g2"}

\* The keys and values of the Params values handed to Params.Get, the keys
\* it is asked for (q is the key of no entry), and the Params values.
ParamKeys == {<<"x">>, <<"y">>}
ParamValues == {<<"z">>, <<"w">>}
AskedKeys == ParamKeys \cup {<<"q">>}
ParamsOfLen(n) == [1..n -> [Key : ParamKeys, Value : ParamValues]]
ParamsInputs == UNION {ParamsOfLen(n) : n \in 0..MaxParams}

\* ----------------------------------------------------------- the machine

\* The router value held in the variables.
Router == [trees |-> trees, nodes |-> nodes]

\* No goroutine is inside Match.
Idle ==
    [pc |-> "idle", method |-> "", path |-> <<>>, ptr |-> 0, params |-> NilSlice,
     segments |-> <<>>, i |-> 0, current |-> NilNode, result |-> NilSlice,
     overlapped |-> FALSE]

\* The pool is empty and nobody has called Match.
PoolInit ==
    /\ pool = {}
    /\ arrays = NoArrays
    /\ running = [g \in Goroutines |-> Idle]
    /\ returned = [g \in Goroutines |-> <<>>]
    /\ begun = 0

\* No handler code holds a Params value.
ParamsIdle ==
    /\ ps = <<>>
    /\ got = <<>>

\* No request was served: the zero Context.
NoCtx == [method |-> "", path |-> <<>>, params |-> <<>>, written |-> FALSE]

\* kese.New and no request served: no middleware, nothing run or written.
AppIdle ==
    /\ middleware = <<>>
    /\ order = <<>>
    /\ response = <<>>
    /\ ctx = NoCtx

\* No RequestID middleware was made.
RequestIDIdle ==
    /\ counter = 0
    /\ handling = [g \in Goroutines |-> [pc |-> "idle", count |-> 0]]
    /\ issued = <<>>

\* ratelimit.NewMemoryStore, and no request yet.
NoEntries == [k \in {} |-> [count |-> 0, expiry |-> 0]]
LimitIdle == [pc |-> "idle", key |-> "", count |-> 0, win |-> 0, status |-> 0, next |-> FALSE]
RateLimitIdle ==
    /\ limitNow = 0
    /\ data = NoEntries
    /\ limiting = [g \in Goroutines |-> LimitIdle]
    /\ windows = <<>>
    /\ started = 0

\* cache.NewMemoryStore, and no request yet.
NoItems == [k \in {} |-> [data |-> <<>>, expiry |-> 0]]
NoResponse == [status |-> 0, body |-> <<>>, xcache |-> ""]
NoRecorder == [statusCode |-> 0, body |-> <<>>]
NotServed ==
    [method |-> "", key |-> <<>>, hit |-> FALSE, invoked |-> FALSE, err |-> "nil",
     captured |-> NoRecorder, original |-> NoResponse, cached |-> [found |-> FALSE, data |-> <<>>],
     before |-> [found |-> FALSE, data |-> <<>>]]
CacheIdle ==
    /\ cacheNow = 0
    /\ items = NoItems
    /\ served = NotServed
    /\ cacheCalls = 0

\* router.New: no trees.  log is the history of the Add calls made.
Init ==
    /\ trees = [m \in {} |-> NilNode]
    /\ nodes = <<>>
    /\ log = <<>>
    /\ PoolInit
    /\ ParamsIdle
    /\ AppIdle
    /\ RequestIDIdle
    /\ RateLimitIdle
    /\ CacheIdle

\* r.Add(method, path, handler)
Add(method, path, handler) ==
    /\ Len(log) < MaxAdds
    /\ LET R2 == AddOp(Router, method, path, handler)
       IN  /\ trees' = R2.trees
           /\ nodes' = R2.nodes
    /\ log' = Append(log, [method |-> method, path |-> path, handler |-> handler])
    /\ UNCHANGED <<poolVars, paramVars, appVars, ridVars, limitVars, cacheVars>>

Next ==
    \E input \in AddInputs, handler \in Handlers :
        Add(input[1], input[2], handler)

\* The registration phase: Add calls on one thread.
Spec == Init /\ [][Next]_vars

\* ------------------------------------------------------ the serving phase

\* The routes of the serving phase: GET / , /:a/:b , /:a/:b/:c/:d/:e and
\* POST /:a .
ServingRoutes ==
    << [method |-> "GET", path |-> <<"/">>, handler |-> "h1"],
       [method |-> "GET", path |-> <<"/", ":", "a", "/", ":", "b">>, handler |-> "h2"],
       [method |-> "GET",
        path |-> <<"/", ":", "a", "/", ":", "b", "/", ":", "c", "/", ":", "d", "/", ":", "e">>,
        handler |-> "h1"],
       [method |-> "POST", path |-> <<"/", ":", "a">>, handler |-> "h2"] >>

\* The requests of the serving phase: GET /p/q (two params), GET /r/s/t/u/v
\* (five params, one more than a pooled buffer holds), GET //w/ (malformed;
\* ends at a node that is no leaf), POST /w/w (falls off the tree), GET /
\* (the root, a leaf), POST / (the root, no leaf), DELETE with the empty
\* path (no tree).
ServingRequests ==
    { <<"GET", <<"/", "p", "/", "q">>>>,
      <<"GET", <<"/", "r", "/", "s", "/", "t", "/", "u", "/", "v">>>>,
      <<"GET", <<"/", "/", "w", "/">>>>,
      <<"POST", <<"/", "w", "/", "w">>>>,
      <<"GET", <<"/">>>>,
      <<"POST", <<"/">>>>,
      <<"DELETE", <<>>>> }

\* The Add calls made one after the other on router R.
RECURSIVE RegisterAll(_, _)
RegisterAll(R, calls) ==
    IF calls = <<>> THEN R
    ELSE RegisterAll(AddOp(R, Head(calls).method, Head(calls).path, Head(calls).handler),
                     Tail(calls))

\* Registration is complete: the router holds the serving routes.
InitServing ==
    /\ LET R == RegisterAll([trees |-> [m \in {} |-> NilNode], nodes |-> <<>>],
                            ServingRoutes)
       IN  /\ trees = R.trees
           /\ nodes = R.nodes
    /\ log = ServingRoutes
    /\ PoolInit
    /\ ParamsIdle
    /\ AppIdle
    /\ RequestIDIdle
    /\ RateLimitIdle
    /\ CacheIdle

\* What a call hands to its caller, with the buffer it used, the elements
\* of the returned slice at the time of the return, and whether another
\* call held a buffer while this one did.
Returns(c, handler, res, isNil, found, arrs) ==
    [method |-> c.method, path |-> c.path, handler |-> handler, res |-> res,
     isNil |-> isNil, found |-> found, value |-> ReadSlice(arrs, res),
     buf |-> c.ptr, overlapped |-> c.overlapped]

\* Goroutine g holds a buffer of the pool.
Holds(g) == running[g].pc \in {"walk", "copy", "put", "miss"}

\* Match is called: the tree of the method is looked up, and a method
\* without a tree returns at once, the pool untouched.  The caller keeps
\* the result in place of the one it kept before.
Begin(g, method, path) ==
    /\ running[g].pc = "idle"
    /\ begun < MaxCalls
    /\ begun' = begun + 1
    /\ IF method \notin DOMAIN trees
       THEN /\ returned' = [returned EXCEPT ![g] =
                   <<Returns([Idle EXCEPT !.method = method, !.path = path],
                             ZeroT, NilSlice, TRUE, FALSE, arrays)>>]
            /\ UNCHANGED running
       ELSE /\ running' = [running EXCEPT ![g] =
                   [Idle EXCEPT !.pc = "get", !.method = method, !.path = path,
                                !.current = trees[method]]]
            /\ UNCHANGED returned
    /\ UNCHANGED pool
    /\ arrays' = Collect(arrays, Live(pool', running', returned'))
    /\ trees' = LookupTree(Router, method).trees
    /\ nodes' = LookupTree(Router, method).nodes
    /\ UNCHANGED <<log, paramVars, appVars, ridVars, limitVars, cacheVars>>

\* After paramsPool.Get returned buffer b: the slice is reset, and the root
\* path is decided without a walk.
Proceed(g, b) ==
    running' =
        [h \in Goroutines |->
            IF h = g
            THEN [running[g] EXCEPT
                    !.ptr = b,
                    !.params = ResetSlice(b),
                    !.overlapped = \E h2 \in Goroutines \ {g} : Holds(h2),
                    !.pc = IF running[g].path = <<"/">>
                           THEN IF nodes[running[g].current].isLeaf THEN "copy" ELSE "miss"
                           ELSE "walk",
                    !.segments = IF running[g].path = <<"/">> THEN <<>>
                                 ELSE splitPath(running[g].path),
                    !.i = 1]
            ELSE IF Holds(h) THEN [running[h] EXCEPT !.overlapped = TRUE]
            ELSE running[h]]

\* paramsPool.Get hands out a buffer of the pool.
GetPooled(g) ==
    /\ running[g].pc = "get"
    /\ \E b \in pool :
          /\ pool' = PoolTake(pool, b)
          /\ Proceed(g, b)
    /\ UNCHANGED <<routerVars, arrays, returned, begun, paramVars, appVars, ridVars, limitVars, cacheVars>>

\* paramsPool.Get calls New (it may do so whatever the pool holds).
GetNew(g) ==
    /\ running[g].pc = "get"
    /\ arrays' = NewBuffer(arrays)
    /\ Proceed(g, FreshArray(arrays))
    /\ UNCHANGED <<routerVars, pool, returned, begun, paramVars, appVars, ridVars, limitVars, cacheVars>>

\* One iteration of the loop over the segments, or the leaf check after
\* the last one.
Walk(g) ==
    /\ running[g].pc = "walk"
    /\ LET c == running[g]
       IN  IF c.i > Len(c.segments)
           THEN /\ running' = [running EXCEPT ![g].pc =
                       IF nodes[c.current].isLeaf THEN "copy" ELSE "miss"]
                /\ UNCHANGED arrays
           ELSE LET step == MatchStep(nodes, c.current, c.segments[c.i])
                IN  IF ~step.ok
                    THEN /\ running' = [running EXCEPT ![g].pc = "miss"]
                         /\ UNCHANGED arrays
                    ELSE IF step.bind = <<>>
                    THEN /\ running' = [running EXCEPT ![g].current = step.next,
                                                        ![g].i = c.i + 1]
                         /\ UNCHANGED arrays
                    ELSE LET app == AppendParam(arrays, c.params, step.bind[1])
                         IN  /\ running' = [running EXCEPT ![g].current = step.next,
                                                            ![g].i = c.i + 1,
                                                            ![g].params = app.hdr]
                             /\ arrays' = Collect(app.arrays,
                                                  Live(pool, running', returned))
    /\ UNCHANGED <<routerVars, pool, returned, begun, paramVars, appVars, ridVars, limitVars, cacheVars>>

\* result := make(Params, len(params)); copy(result, params)
Copy(g) ==
    /\ running[g].pc = "copy"
    /\ LET out == CopyOut(arrays, running[g].params)
       IN  /\ arrays' = out.arrays
           /\ running' = [running EXCEPT ![g].result = out.res, ![g].pc = "put"]
    /\ UNCHANGED <<routerVars, pool, returned, begun, paramVars, appVars, ridVars, limitVars, cacheVars>>

\* paramsPool.Put(paramsPtr); return handler, result, true.  The caller
\* keeps the result in place of the one it kept before.
PutFound(g) ==
    /\ running[g].pc = "put"
    /\ pool' = PoolPut(pool, running[g].ptr)
    /\ returned' = [returned EXCEPT ![g] =
           <<Returns(running[g], nodes[running[g].current].handler,
                     running[g].result, FALSE, TRUE, arrays)>>]
    /\ running' = [running EXCEPT ![g] = Idle]
    /\ arrays' = Collect(arrays, Live(pool', running', returned'))
    /\ UNCHANGED <<routerVars, begun, paramVars, appVars, ridVars, limitVars, cacheVars>>

\* paramsPool.Put(paramsPtr); return zero, nil, false
PutMiss(g) ==
    /\ running[g].pc = "miss"
    /\ pool' = PoolPut(pool, running[g].ptr)
    /\ returned' = [returned EXCEPT ![g] =
           <<Returns(running[g], ZeroT, NilSlice, TRUE, FALSE, arrays)>>]
    /\ running' = [running EXCEPT ![g] = Idle]
    /\ arrays' = Collect(arrays, Live(pool', running', returned'))
    /\ UNCHANGED <<routerVars, begun, paramVars, appVars, ridVars, limitVars, cacheVars>>

NextServing ==
    \E g \in Goroutines :
        \/ \E req \in ServingRequests : Begin(g, req[1], req[2])
        \/ GetPooled(g)
        \/ GetNew(g)
        \/ Walk(g)
        \/ Copy(g)
        \/ PutFound(g)
        \/ PutMiss(g)

\* The serving phase: registration is complete and the goroutines call
\* Match concurrently.
SpecServing == InitServing /\ [][NextServing]_vars


\* ------------------------------------------------------------- the App

\* A HandlerFunc is the sequence of its layers, the outermost first: the
\* middleware wrapped around it and, last, the route's own handler.  The
\* route handlers are named after what they do:
\*   ok          appends "handler", returns c.String(200, "OK")
\*   fail        returns errors.New(...) and writes nothing
\*   invalid     returns a *ValidationError and writes nothing
\*   wrote_fail  calls c.String(200, "OK"), then returns an error
\*   direct_fail calls c.Writer.WriteHeader(200), then returns an error
\*               (TemplateEngine.Render when ExecuteTemplate fails)
HandlerKinds == {"ok", "fail", "invalid", "wrote_fail", "direct_fail"}

\* The middleware of the tests: it appends before<n>, calls next, appends
\* after<n> and returns next's error.
MiddlewareNames == {"m1", "m2"}

\* The arguments of App.Use: one middleware or two.
UseInputs == { <<"m1">>, <<"m2">>, <<"m1", "m2">>, <<"m2", "m1">> }

\* The routes of the App: GET /a with every handler, GET /a/:x and POST /a.
AppRoutes ==
    ({"GET"} \X { <<"/", "a">> } \X HandlerKinds)
        \cup { <<"GET", <<"/", "a", "/", ":", "x">>, "ok">>,
               <<"POST", <<"/", "a">>, "ok">> }

\* The group of the App: a.Group("/a", gm1, gm2).
Groups == { [prefix |-> <<"/", "a">>, middleware |-> <<"gm1", "gm2">>] }

\* The routes added through a group: GET /:x and GET /z under the prefix.
GroupRoutes ==
    { <<"GET", <<"/", ":", "x">>, "ok">>, <<"GET", <<"/", "z">>, "fail">> }

\* The requests to the App: GET /a , GET /a/z , POST /a , POST /a/z ,
\* GET /z , DELETE /a .
AppRequests ==
    { <<"GET", <<"/", "a">>>>, <<"GET", <<"/", "a", "/", "z">>>>,
      <<"POST", <<"/", "a">>>>, <<"POST", <<"/", "a", "/", "z">>>>,
      <<"GET", <<"/", "z">>>>, <<"DELETE", <<"/", "a">>>> }

\* context.New(w, r)
NewCtx(method, path) ==
    [method |-> method, path |-> path, params |-> <<>>, written |-> FALSE]

\* order = append(order, ...)
Logged(st, at, by) == [st EXCEPT !.order = Append(@, [at |-> at, by |-> by])]

\* c.String / c.JSON: c.Writer.WriteHeader(status); c.written = true; the
\* body is written.
CtxWrite(st, status, body) ==
    [st EXCEPT !.response = Append(@, [status |-> status, body |-> body]),
               !.ctx.written = TRUE]

\* c.Writer.WriteHeader(status), past the Context: written stays as it is.
DirectWrite(st, status) ==
    [st EXCEPT !.response = Append(@, [status |-> status, body |-> ""])]

\* c.IsWritten()
IsWritten(c) == c.written

\* DefaultErrorHandler: 400 for a *ValidationError, else 500.
DefaultErrorHandler(err) ==
    IF err = "validation" THEN [status |-> 400, body |-> "Validation failed"]
    ELSE [status |-> 500, body |-> "Internal Server Error"]

\* middleware[i](handler): the middleware becomes the outermost layer.
Wrap(m, handler) == <<m>> \o handler

\* wrapMiddleware that applies the middleware in registration order.
RECURSIVE wrapMiddlewareForward(_, _, _)
wrapMiddlewareForward(mws, i, handler) ==
    IF i = 0 THEN handler
    ELSE wrapMiddlewareForward(mws, i - 1, Wrap(mws[Len(mws) + 1 - i], handler))

\* App.wrapMiddleware: for i := len(a.middleware) - 1; i >= 0; i--
\* (here i counts from Len(mws) down to 1).
RECURSIVE wrapMiddleware(_, _, _)
wrapMiddleware(mws, i, handler) ==
    IF i = 0 THEN handler
    ELSE wrapMiddleware(mws, i - 1, Wrap(mws[i], handler))

\* order = append(order, "handler"); return c.String(200, "OK")
RunOk(st) == [st |-> CtxWrite(Logged(st, "handler", "ok"), 200, "OK"), err |-> "nil"]

\* return errors.New("something went wrong")
RunFail(st) == [st |-> Logged(st, "handler", "fail"), err |-> "error"]

\* return a *ValidationError
RunInvalid(st) == [st |-> Logged(st, "handler", "invalid"), err |-> "validation"]

\* return c.String(200, "OK") when the Write of the body fails: the header
\* is written, c.written is set and the error of Write returned.
RunWroteFail(st) ==
    [st |-> CtxWrite(Logged(st, "handler", "wrote_fail"), 200, "OK"), err |-> "error"]

\* TemplateEngine.Render when ExecuteTemplate fails: c.Writer.WriteHeader
\* was called, the error is returned before c.SetWritten().
RunDirectFail(st) ==
    [st |-> DirectWrite(Logged(st, "handler", "direct_fail"), 200), err |-> "error"]

\* The route's own handler runs: what it appends and writes, and the error
\* it returns ("nil" for none).
RunBase(kind, st) ==
    CASE kind = "ok" -> RunOk(st)
      [] kind = "fail" -> RunFail(st)
      [] kind = "invalid" -> RunInvalid(st)
      [] kind = "wrote_fail" -> RunWroteFail(st)
      [] kind = "direct_fail" -> RunDirectFail(st)

\* handler(ctx): each middleware layer appends before, calls the layer
\* below, appends after and returns its error.
RECURSIVE RunHandler(_, _)
RunHandler(handler, st) ==
    IF Len(handler) = 1 THEN RunBase(handler[1], st)
    ELSE LET below == RunHandler(Tail(handler), Logged(st, "before", Head(handler)))
         IN  [st |-> Logged(below.st, "after", Head(handler)), err |-> below.err]

\* ServeHTTP that wraps the route's handler with the middleware the App
\* holds when the request arrives.
ServeHTTPOpLate(R, method, path) ==
    LET st0 == [order |-> <<>>, response |-> <<>>, ctx |-> NewCtx(method, path)]
        res == MatchOp(R, method, path)
    IN  IF ~res.found
        THEN CtxWrite(st0, 404, "404 Not Found")
        ELSE LET late == wrapMiddleware(middleware, Len(middleware),
                                        <<res.handler[Len(res.handler)]>>)
                 ran == RunHandler(late, [st0 EXCEPT !.ctx.params = res.params])
             IN  IF ran.err # "nil" /\ ~IsWritten(ran.st.ctx)
                 THEN CtxWrite(ran.st, DefaultErrorHandler(ran.err).status,
                               DefaultErrorHandler(ran.err).body)
                 ELSE ran.st

\* ServeHTTP that answers 405 when another method has a route for the path.
ServeHTTPOp405(R, method, path) ==
    LET st0 == [order |-> <<>>, response |-> <<>>, ctx |-> NewCtx(method, path)]
        res == MatchOp(R, method, path)
    IN  IF ~res.found
        THEN IF \E m \in DOMAIN R.trees : MatchOp(R, m, path).found
             THEN CtxWrite(st0, 405, "405 Method Not Allowed")
             ELSE CtxWrite(st0, 404, "404 Not Found")
        ELSE LET ran == RunHandler(res.handler,
                                   [st0 EXCEPT !.ctx.params = res.params])
             IN  IF ran.err # "nil" /\ ~IsWritten(ran.st.ctx)
                 THEN CtxWrite(ran.st, DefaultErrorHandler(ran.err).status,
                               DefaultErrorHandler(ran.err).body)
                 ELSE ran.st

\* App.ServeHTTP on router R: what the request appends to order, writes to
\* the ResponseWriter and leaves in its Context.  Match's handler is nil
\* exactly when no route is found.
ServeHTTPOp(R, method, path) ==
    LET st0 == [order |-> <<>>, response |-> <<>>, ctx |-> NewCtx(method, path)]
        res == MatchOp(R, method, path)
    IN  IF ~res.found
        THEN CtxWrite(st0, 404, "404 Not Found")
        ELSE LET ran == RunHandler(res.handler,
                                   [st0 EXCEPT !.ctx.params = res.params])
             IN  IF ran.err # "nil" /\ ~IsWritten(ran.st.ctx)
                 THEN CtxWrite(ran.st, DefaultErrorHandler(ran.err).status,
                               DefaultErrorHandler(ran.err).body)
                 ELSE ran.st

\* a.Use(middleware...)
Use(mws) ==
    /\ Len(middleware) + Len(mws) + Len(log) <= MaxSetup
    /\ middleware' = middleware \o mws
    /\ UNCHANGED <<order, response, ctx, routerVars, poolVars, paramVars, ridVars, limitVars, cacheVars>>

\* a.GET / a.POST: addRoute wraps the handler with the middleware registered
\* so far and adds it to the router.  The history keeps, with the call, the
\* middleware the App held and the middleware of the group (none here).
AddRoute(method, path, kind) ==
    /\ Len(middleware) + Len(log) < MaxSetup
    /\ LET R2 == AddOp(Router, method, path,
                       wrapMiddleware(middleware, Len(middleware), <<kind>>))
       IN  /\ trees' = R2.trees
           /\ nodes' = R2.nodes
    /\ log' = Append(log, [method |-> method, path |-> path, handler |-> kind,
                           uses |-> middleware, group |-> <<>>])
    /\ UNCHANGED <<appVars, poolVars, paramVars, ridVars, limitVars, cacheVars>>

\* RouterGroup.addRoute: for i := len(rg.middleware) - 1; i >= 0; i--
\* (here i counts from Len(mws) down to 1).
RECURSIVE groupWrap(_, _, _)
groupWrap(mws, i, handler) ==
    IF i = 0 THEN handler
    ELSE groupWrap(mws, i - 1, Wrap(mws[i], handler))

\* rg.GET: RouterGroup.addRoute wraps the handler with the group's
\* middleware and calls App.addRoute with the prefixed path, which wraps
\* the result with the middleware the App holds and adds it to the router.
GroupAddRoute(rg, method, path, kind) ==
    /\ Len(middleware) + Len(log) < MaxSetup
    /\ LET handler == groupWrap(rg.middleware, Len(rg.middleware), <<kind>>)
           fullPath == rg.prefix \o path
           R2 == AddOp(Router, method, fullPath,
                       wrapMiddleware(middleware, Len(middleware), handler))
       IN  /\ trees' = R2.trees
           /\ nodes' = R2.nodes
           /\ log' = Append(log, [method |-> method, path |-> fullPath, handler |-> kind,
                                  uses |-> middleware, group |-> rg.middleware])
    /\ UNCHANGED <<appVars, poolVars, paramVars, ridVars, limitVars, cacheVars>>

\* a.ServeHTTP(w, r)
ServeHTTP(method, path) ==
    /\ LET st == ServeHTTPOp(Router, method, path)
       IN  /\ order' = st.order
           /\ response' = st.response
           /\ ctx' = st.ctx
    /\ UNCHANGED <<middleware, routerVars, poolVars, paramVars, ridVars, limitVars, cacheVars>>

NextApp ==
    \/ \E mws \in UseInputs : Use(mws)
    \/ \E route \in AppRoutes : AddRoute(route[1], route[2], route[3])
    \/ \E rg \in Groups, route \in GroupRoutes :
          GroupAddRoute(rg, route[1], route[2], route[3])
    \/ \E req \in AppRequests : ServeHTTP(req[1], req[2])

\* One App: middleware and routes are registered and requests served, one
\* at a time.
SpecApp == Init /\ [][NextApp]_vars

\* ------------------------------------------------------------ RequestID

\* What time.Now().Unix() returns while the requests are handled.
Times == {100, 101}

\* counter.Add that hands out the sum without storing it.
AtomicAddLost(c, delta) == [new |-> c, ret |-> c + delta]

\* atomic.Uint64.Add: one indivisible step adds delta, stores the sum and
\* returns it (the counter stays far below 2^64 within MaxRequests).
AtomicAdd(c, delta) == [new |-> c + delta, ret |-> c + delta]

\* count := counter.Add(1), for the request goroutine g handles
RidAdd(g) ==
    /\ handling[g].pc = "idle"
    /\ counter < MaxRequests
    /\ counter' = AtomicAdd(counter, 1).new
    /\ handling' = [handling EXCEPT ![g] = [pc |-> "header",
                                            count |-> AtomicAdd(counter, 1).ret]]
    /\ UNCHANGED <<issued, routerVars, poolVars, paramVars, appVars, limitVars, cacheVars>>

\* requestID := fmt.Sprintf("%d-%d", time.Now().Unix(), count);
\* c.SetHeader("X-Request-ID", requestID); return next(c)
RidSetHeader(g, t) ==
    /\ handling[g].pc = "header"
    /\ issued' = Append(issued, [time |-> t, count |-> handling[g].count])
    /\ handling' = [handling EXCEPT ![g] = [pc |-> "idle", count |-> 0]]
    /\ UNCHANGED <<counter, routerVars, poolVars, paramVars, appVars, limitVars, cacheVars>>

NextRequestID ==
    \E g \in Goroutines :
        \/ RidAdd(g)
        \/ \E t \in Times : RidSetHeader(g, t)

\* One RequestID middleware, its requests handled by concurrent goroutines.
SpecRequestID == Init /\ [][NextRequestID]_vars

\* ------------------------------------------------------ reading Params

\* Handler code holds some Params value.
InitParams ==
    /\ trees = [m \in {} |-> NilNode]
    /\ nodes = <<>>
    /\ log = <<>>
    /\ PoolInit
    /\ ps \in ParamsInputs
    /\ got = <<>>
    /\ AppIdle
    /\ RequestIDIdle
    /\ RateLimitIdle
    /\ CacheIdle

\* ps.Get(name): the receiver is read, never written.
ParamsGet(name) ==
    /\ got' = <<[key |-> name, value |-> Get(ps, name)]>>
    /\ UNCHANGED <<ps, routerVars, poolVars, appVars, ridVars, limitVars, cacheVars>>

NextParams == \E name \in AskedKeys : ParamsGet(name)

\* Handler code calls Get on the Params it holds.
SpecParams == InitParams /\ [][NextParams]_vars

\* ------------------------------------------------------------ RateLimit

\* RateLimitConfig.Limit and RateLimitConfig.Window (in clock readings).
Limit == 2
Window == 2

\* The keys KeyFunc gives: the client addresses.
LimitKeys == {"ip1", "ip2"}

\* The entry of the key exists and has not expired: now.Before(e.expiry).
Counting(d, key, t) == key \in DOMAIN d /\ t < d[key].expiry

\* Increment without the lock: the count read is incremented and returned,
\* and the store of the new count is lost.
IncrementLost(d, key, window, t) ==
    IF Counting(d, key, t)
    THEN [data |-> d, count |-> d[key].count + 1]
    ELSE [data |-> MapPut(d, key, [count |-> 1, expiry |-> t + window]), count |-> 1]

\* MemoryStore.Increment, under s.mu: the entry that has not expired is
\* incremented, else a new entry with count 1 and expiry now + window
\* replaces it.
Increment(d, key, window, t) ==
    IF Counting(d, key, t)
    THEN [data |-> [d EXCEPT ![key].count = @ + 1], count |-> d[key].count + 1]
    ELSE [data |-> MapPut(d, key, [count |-> 1, expiry |-> t + window]), count |-> 1]

\* The last entry the history holds for the key.
CurrentWindow(key) ==
    CHOOSE w \in DOMAIN windows :
        /\ windows[w].key = key
        /\ \A w2 \in DOMAIN windows : windows[w2].key = key => w2 <= w

\* key := config.KeyFunc(c); count, err := config.Store.Increment(key,
\* config.Window), for the request goroutine g handles.  The history notes
\* the entry the count was drawn from.
LimitIncrement(g, key) ==
    /\ limiting[g].pc = "idle"
    /\ started < MaxRequests
    /\ started' = started + 1
    /\ LET r == Increment(data, key, Window, limitNow)
           fresh == ~Counting(data, key, limitNow)
           w == IF fresh THEN Len(windows) + 1 ELSE CurrentWindow(key)
       IN  /\ data' = r.data
           /\ windows' =
                 IF fresh
                 THEN Append(windows, [key |-> key, counts |-> <<r.count>>,
                                       passed |-> 0, denied |-> 0])
                 ELSE [windows EXCEPT ![w].counts = Append(@, r.count)]
           /\ limiting' = [limiting EXCEPT ![g] =
                 [LimitIdle EXCEPT !.pc = "check", !.key = key, !.count = r.count, !.win = w]]
    /\ UNCHANGED <<limitNow, routerVars, poolVars, paramVars, appVars, ridVars, cacheVars>>

\* if count > config.Limit { return c.JSON(429, ...) }; return next(c)
LimitCheck(g) ==
    /\ limiting[g].pc = "check"
    /\ IF limiting[g].count > Limit
       THEN /\ limiting' = [limiting EXCEPT ![g].pc = "idle", ![g].status = 429,
                                            ![g].next = FALSE]
            /\ windows' = [windows EXCEPT ![limiting[g].win].denied = @ + 1]
       ELSE /\ limiting' = [limiting EXCEPT ![g].pc = "idle", ![g].status = 0,
                                            ![g].next = TRUE]
            /\ windows' = [windows EXCEPT ![limiting[g].win].passed = @ + 1]
    /\ UNCHANGED <<limitNow, data, started, routerVars, poolVars, paramVars, appVars,
                   ridVars, cacheVars>>

\* Time passes.
LimitTick ==
    /\ limitNow < MaxClock
    /\ limitNow' = limitNow + 1
    /\ UNCHANGED <<data, limiting, windows, started, routerVars, poolVars, paramVars,
                   appVars, ridVars, cacheVars>>

\* MemoryStore.cleanup, on its ticker: the entries with now.After(e.expiry)
\* are deleted.
LimitCleanup ==
    /\ \E key \in DOMAIN data : limitNow > data[key].expiry
    /\ data' = [key \in {k \in DOMAIN data : ~(limitNow > data[k].expiry)} |-> data[key]]
    /\ UNCHANGED <<limitNow, limiting, windows, started, routerVars, poolVars, paramVars,
                   appVars, ridVars, cacheVars>>

NextRateLimit ==
    \/ \E g \in Goroutines :
          \/ \E key \in LimitKeys : LimitIncrement(g, key)
          \/ LimitCheck(g)
    \/ LimitTick
    \/ LimitCleanup

\* One RateLimit middleware over one MemoryStore, its requests handled by
\* concurrent goroutines while time passes.
SpecRateLimit == Init /\ [][NextRateLimit]_vars

\* ---------------------------------------------------------------- Cache

\* CacheConfig.TTL (in clock readings).
TTL == 1

\* The requests the Cache middleware gets.
CacheMethods == {"GET", "POST"}
CachePaths == { <<"/", "a">>, <<"/", "b">> }

\* What the next handler does: c.String(status, body) returning nil, or
\* returning an error with nothing written.
NextHandlers ==
    { [status |-> 200, body |-> <<"A">>, err |-> "nil"],
      [status |-> 201, body |-> <<"B">>, err |-> "nil"],
      [status |-> 404, body |-> <<"N">>, err |-> "nil"],
      [status |-> 0, body |-> <<>>, err |-> "error"] }

\* DefaultCacheConfig's KeyFunc: c.Method() + ":" + c.Path()
KeyFunc(method, path) == <<method, ":">> \o path

\* MemoryStore.Get: the item of the key, unless time.Now().After(expiry).
CacheGet(its, key, t) ==
    IF key \notin DOMAIN its THEN [found |-> FALSE, data |-> <<>>]
    ELSE IF t > its[key].expiry THEN [found |-> FALSE, data |-> <<>>]
    ELSE [found |-> TRUE, data |-> its[key].data]

\* MemoryStore.Set
CacheSet(its, key, value, ttl, t) == MapPut(its, key, [data |-> value, expiry |-> t + ttl])

\* A request as the middleware sees it: c.Writer names the original
\* http.ResponseWriter or the responseRecorder put in its place.
NewRequest ==
    [writer |-> "original", original |-> NoResponse, recorder |-> NoRecorder,
     written |-> FALSE, invoked |-> FALSE]

\* c.Writer.WriteHeader(status): responseRecorder.WriteHeader keeps the
\* status; the original writer sends the first status it is given.
WriteHeader(st, status) ==
    IF st.writer = "recorder" THEN [st EXCEPT !.recorder.statusCode = status]
    ELSE [st EXCEPT !.original.status = IF @ = 0 THEN status ELSE @]

\* c.Writer.Write(b): responseRecorder.Write appends to its buffer; the
\* original writer sends the bytes, after status 200 if none was sent.
Write(st, b) ==
    IF st.writer = "recorder" THEN [st EXCEPT !.recorder.body = @ \o b]
    ELSE [st EXCEPT !.original.status = IF @ = 0 THEN 200 ELSE @,
                    !.original.body = @ \o b]

\* recorder.Header().Set("X-Cache", v) and c.SetHeader("X-Cache", v): the
\* recorder's Header is the embedded original writer's.
SetXCache(st, v) == [st EXCEPT !.original.xcache = v]

\* next(c): the handler is invoked and writes through c.Writer.
CallNext(h, st) ==
    LET st1 == [st EXCEPT !.invoked = TRUE]
    IN  IF h.err # "nil" THEN st1
        ELSE [Write(WriteHeader(st1, h.status), h.body) EXCEPT !.written = TRUE]

\* The function CacheWithConfig returns, for one request: the store and
\* the request afterwards, with what the recorder held when next returned.
CacheOp(its, t, method, path, h) ==
    LET key == KeyFunc(method, path)
        hitOrMiss == CacheGet(its, key, t)
    IN  IF method # "GET"
        THEN [items |-> its, st |-> CallNext(h, NewRequest), hit |-> FALSE,
              captured |-> NoRecorder, err |-> h.err]
        ELSE IF hitOrMiss.found
        THEN [items |-> its,
              st |-> [Write(WriteHeader(SetXCache(NewRequest, "HIT"), 200), hitOrMiss.data)
                         EXCEPT !.written = TRUE],
              hit |-> TRUE, captured |-> NoRecorder, err |-> "nil"]
        ELSE LET ran == CallNext(h, [NewRequest EXCEPT !.writer = "recorder"])
                 rec == ran.recorder
                 its2 == IF h.err = "nil" /\ rec.statusCode >= 200 /\ rec.statusCode < 300
                         THEN CacheSet(its, key, rec.body, TTL, t)
                         ELSE its
                 st2 == SetXCache(ran, "MISS")
                 st3 == IF st2.recorder.statusCode > 0
                        THEN WriteHeader(st2, st2.recorder.statusCode)
                        ELSE st2
                 st4 == Write(st3, st3.recorder.body)
             IN  [items |-> its2, st |-> st4, hit |-> FALSE, captured |-> rec,
                  err |-> h.err]

\* The Cache middleware handles a request, with next a handler of the
\* route.  served keeps the request, what the original writer got, and
\* what the store holds for the key before and after.
CacheServe(method, path, h) ==
    /\ cacheCalls < MaxRequests
    /\ cacheCalls' = cacheCalls + 1
    /\ LET r == CacheOp(items, cacheNow, method, path, h)
           key == KeyFunc(method, path)
       IN  /\ items' = r.items
           /\ served' = [method |-> method, key |-> key, hit |-> r.hit,
                         invoked |-> r.st.invoked, err |-> r.err,
                         captured |-> r.captured, original |-> r.st.original,
                         cached |-> CacheGet(r.items, key, cacheNow),
                         before |-> CacheGet(items, key, cacheNow)]
    /\ UNCHANGED <<cacheNow, routerVars, poolVars, paramVars, appVars, ridVars, limitVars>>

\* Time passes.
CacheTick ==
    /\ cacheNow < MaxClock
    /\ cacheNow' = cacheNow + 1
    /\ UNCHANGED <<items, served, cacheCalls, routerVars, poolVars, paramVars, appVars,
                   ridVars, limitVars>>

\* MemoryStore.cleanup, on its ticker: the items with now.After(expiry) are
\* deleted.
CacheCleanup ==
    /\ \E key \in DOMAIN items : cacheNow > items[key].expiry
    /\ items' = [key \in {k \in DOMAIN items : ~(cacheNow > items[k].expiry)} |-> items[key]]
    /\ UNCHANGED <<cacheNow, served, cacheCalls, routerVars, poolVars, paramVars, appVars,
                   ridVars, limitVars>>

NextCache ==
    \/ \E method \in CacheMethods, path \in CachePaths, h \in NextHandlers :
          CacheServe(method, path, h)
    \/ CacheTick
    \/ CacheCleanup

\* One Cache middleware over one MemoryStore, its requests handled one at a
\* time while time passes.
SpecCache == Init /\ [][NextCache]_vars

\* ------------------------------------------------- vocabulary of the claims

\* The paths of the examples, with one-letter segments:
\* users -> a, me -> b, posts -> c, request values -> z and w.
P_root == <<"/">>
P_a == <<"/", "a">>
P_ab == <<"/", "a", "/", "b">>
P_ax == <<"/", "a", "/", ":", "x">>
P_ay == <<"/", "a", "/", ":", "y">>
P_axc == <<"/", "a", "/", ":", "x", "/", "c">>
P_axcy == <<"/", "a", "/", ":", "x", "/", "c", "/", ":", "y">>
P_axcx == <<"/", "a", "/", ":", "x", "/", "c", "/", ":", "x">>
P_az == <<"/", "a", "/", "z">>
P_abc == <<"/", "a", "/", "b", "/", "c">>
P_azc == <<"/", "a", "/", "z", "/", "c">>
P_azcw == <<"/", "a", "/", "z", "/", "c", "/", "w">>

\* One parameter binding.
KV(k, v) == [Key |-> <<k>>, Value |-> <<v>>]

\* A call of the history.
Call(method, path, handler) == [method |-> method, path |-> path, handler |-> handler]

\* The history holds exactly the two calls, in either order.
LogIsBoth(c1, c2) == log = <<c1, c2>> \/ log = <<c2, c1>>

\* The segments requests are made of, and the tails of the request paths.
ReqSegs == UNION { {splitPath(p)[i] : i \in 1..Len(splitPath(p))} : p \in ReqPaths }
ReqTails ==
    UNION { {SubSeq(splitPath(p), i, Len(splitPath(p))) : i \in 1..(Len(splitPath(p)) + 1)}
            : p \in ReqPaths }

NodeIds == 1..Len(nodes)
HasBoth(n) == DOMAIN nodes[n].children # {} /\ nodes[n].paramChild # NilNode

\* C1: static precedence.  At every node that has static children and a
\* parameter child, a walk whose next segment is a static key continues from
\* that static child and binds nothing, and a walk whose next segment is no
\* static key continues from the parameter child with (paramName, segment)
\* bound; and with /a/b -> h1 and /a/:x -> h2 registered in either order,
\* /a/b gives h1 with no params and /a/z gives h2 with [(x, z)].
C1_StaticPrecedence ==
    /\ \A n \in NodeIds : HasBoth(n) =>
         \A seg \in ReqSegs, rest \in ReqTails :
            MatchWalk(nodes, <<seg>> \o rest, 1, n, <<>>) =
               IF seg \in DOMAIN nodes[n].children
               THEN MatchWalk(nodes, rest, 1, nodes[n].children[seg], <<>>)
               ELSE MatchWalk(nodes, rest, 1, nodes[n].paramChild,
                              <<[Key |-> nodes[nodes[n].paramChild].paramName,
                                 Value |-> seg]>>)
    /\ \A h1, h2 \in Handlers :
         LogIsBoth(Call("GET", P_ab, h1), Call("GET", P_ax, h2)) =>
            /\ MatchOp(Router, "GET", P_ab) = Found(h1, <<>>)
            /\ MatchOp(Router, "GET", P_az) = Found(h2, <<KV("x", "z")>>)

\* Both routes of C1 are registered, /a/:x first, and both requests match.
C1_Witness ==
    /\ log = <<Call("GET", P_ax, "h2"), Call("GET", P_ab, "h1")>>
    /\ \E n \in NodeIds : HasBoth(n)
    /\ MatchOp(Router, "GET", P_ab).found
    /\ MatchOp(Router, "GET", P_az).params = <<KV("x", "z")>>

\* C2: no backtracking.  Once the next segment is a static key of the node,
\* the result of the walk is the result of the walk from that static child,
\* whatever the parameter child would have given; and with /a/b -> h1 and
\* /a/:x/c -> h2 registered in either order, /a/b/c is not found while
\* /a/z/c gives h2 with [(x, z)].
C2_NoBacktracking ==
    /\ \A n \in NodeIds : \A seg \in DOMAIN nodes[n].children, rest \in ReqTails :
          MatchWalk(nodes, <<seg>> \o rest, 1, n, <<>>) =
             MatchWalk(nodes, rest, 1, nodes[n].children[seg], <<>>)
    /\ \A h1, h2 \in Handlers :
         LogIsBoth(Call("GET", P_ab, h1), Call("GET", P_axc, h2)) =>
            /\ MatchOp(Router, "GET", P_abc) = NotFound
            /\ MatchOp(Router, "GET", P_azc) = Found(h2, <<KV("x", "z")>>)

\* Both routes of C2 are registered and the parameter branch alone would
\* have matched /a/b/c.
C2_Witness ==
    /\ log = <<Call("GET", P_ab, "h1"), Call("GET", P_axc, "h2")>>
    /\ ~MatchOp(Router, "GET", P_abc).found
    /\ \E n \in NodeIds :
          /\ HasBoth(n)
          /\ MatchWalk(nodes, <<<<"c">>>>, 1, nodes[n].paramChild, <<>>).found

\* The request paths with the same splitPath result as p.
SameSegments == [p \in ReqPaths |-> {q \in ReqPaths : splitPath(q) = splitPath(p)}]

\* C3: Match normalization.  Two request paths with the same splitPath
\* segments get the same result (found, handler, params, nil-ness) for
\* every method.
C3_MatchNormalization ==
    \A m \in Methods, p \in ReqPaths : \A q \in SameSegments[p] :
        MatchOp(Router, m, p) = MatchOp(Router, m, q)

\* The root is registered and found under its three spellings, and /a is
\* registered and found under three spellings.
C3_Witness ==
    /\ MatchOp(Router, "GET", <<"/">>).found
    /\ MatchOp(Router, "GET", <<>>).found
    /\ MatchOp(Router, "GET", <<"/", "/">>).found
    /\ MatchOp(Router, "GET", <<"/", "a", "/">>).found
    /\ MatchOp(Router, "GET", <<"/", "/", "a", "/", "/">>).found

\* Every method and request path gets the same result on two routers.
SameMatches(R1, R2) ==
    \A m \in Methods, p \in ReqPaths : MatchOp(R1, m, p) = MatchOp(R2, m, p)

\* C4: Add normalization.  Registering under two paths with the same
\* splitPath segments (the empty sequence included) gives routers that
\* match alike.
C4_AddNormalization ==
    \A m \in AddMethods, h \in Handlers, p \in RegPaths, q \in RegPaths :
        splitPath(p) = splitPath(q) =>
            SameMatches(AddOp(Router, m, p, h), AddOp(Router, m, q, h))

\* ------------------------------------------- the history read as patterns

\* The pattern a call registers: the segments of its path.
Segs(call) == splitPath(call.path)

\* The first n segments of s1 and of s2 lead to the same node of a tree:
\* a parameter segment in both, or the same static segment.
SamePos(s1, s2, n) ==
    /\ Len(s1) >= n
    /\ Len(s2) >= n
    /\ \A j \in 1..n : (HasColonPrefix(s1[j]) /\ HasColonPrefix(s2[j])) \/ s1[j] = s2[j]

\* A call of the history for this method made segment seg a static key of
\* the node that pat[1..i-1] leads to.
StaticAt(method, pat, i, seg) ==
    \E k \in DOMAIN log :
        /\ log[k].method = method
        /\ SamePos(Segs(log[k]), pat, i - 1)
        /\ Len(Segs(log[k])) >= i
        /\ Segs(log[k])[i] = seg
        /\ ~HasColonPrefix(seg)

\* The request segments req follow the pattern pat: equal static segments,
\* and at each parameter segment a value that is no static key there.
Follows(method, pat, req) ==
    /\ Len(req) = Len(pat)
    /\ \A i \in 1..Len(pat) :
          IF HasColonPrefix(pat[i]) THEN ~StaticAt(method, pat, i, req[i])
          ELSE req[i] = pat[i]

\* The positions of the parameter segments of pat, left to right.
ParamPositions(pat) ==
    LET IsParamAt(i) == HasColonPrefix(pat[i])
    IN  SelectSeq([i \in 1..Len(pat) |-> i], IsParamAt)

\* The first call of the history, for this method, with a parameter segment
\* at the node pat[1..i-1] leads to, and the name it gave.
FirstParamCall(method, pat, i) ==
    LET Hits == {k \in DOMAIN log :
                    /\ log[k].method = method
                    /\ SamePos(Segs(log[k]), pat, i - 1)
                    /\ Len(Segs(log[k])) >= i
                    /\ HasColonPrefix(Segs(log[k])[i])}
    IN  CHOOSE k \in Hits : \A k2 \in Hits : k <= k2
FirstName(method, pat, i) == Tail(Segs(log[FirstParamCall(method, pat, i)])[i])

\* The bindings of req under pat, keyed by pat's own parameter names.
OwnParams(pat, req) ==
    LET pp == ParamPositions(pat)
    IN  [j \in 1..Len(pp) |-> [Key |-> Tail(pat[pp[j]]), Value |-> req[pp[j]]]]

\* The bindings of req under pat, keyed by the first name registered at each
\* parameter position.
FirstNamedParams(method, pat, req) ==
    LET pp == ParamPositions(pat)
    IN  [j \in 1..Len(pp) |-> [Key |-> FirstName(method, pat, pp[j]),
                               Value |-> req[pp[j]]]]

\* The segments of the request paths.
ReqSegments == [p \in ReqPaths |-> splitPath(p)]

\* C5 as stated: when a request follows a registered pattern with k
\* parameter segments, Match finds it and returns k params, the i-th
\* pairing the name of the pattern's i-th parameter segment with the request
\* segment at that position.
C5_ParamsByOwnName ==
    \A k \in DOMAIN log, p \in ReqPaths :
        (Segs(log[k]) # <<>> /\ Follows(log[k].method, Segs(log[k]), ReqSegments[p])) =>
            /\ MatchOp(Router, log[k].method, p).found
            /\ MatchOp(Router, log[k].method, p).params =
                  OwnParams(Segs(log[k]), ReqSegments[p])

\* C5 amended: the i-th param pairs the request segment at the pattern's
\* i-th parameter position with the name the first registration of a
\* parameter at that position gave (the pattern's own name unless an
\* earlier Add named the position otherwise), in left-to-right order; and
\* /a/:x/c/:y registered alone gives [(x, z), (y, w)] for /a/z/c/w.
C5_ParamsInOrder ==
    /\ \A k \in DOMAIN log, p \in ReqPaths :
        (Segs(log[k]) # <<>> /\ Follows(log[k].method, Segs(log[k]), ReqSegments[p])) =>
            /\ MatchOp(Router, log[k].method, p).found
            /\ MatchOp(Router, log[k].method, p).params =
                  FirstNamedParams(log[k].method, Segs(log[k]), ReqSegments[p])
    /\ \A h \in Handlers :
         log = <<Call("GET", P_axcy, h)>> =>
            MatchOp(Router, "GET", P_azcw) = Found(h, <<KV("x", "z"), KV("y", "w")>>)

\* /a/:y was registered before /a/:x/c/:y, and /a/z/c/w, which follows the
\* second pattern, returns two params in order, the first under the name
\* the first registration gave.
C5_Witness ==
    /\ log = <<Call("GET", P_ay, "h1"), Call("GET", P_axcy, "h2")>>
    /\ Follows("GET", splitPath(P_axcy), splitPath(P_azcw))
    /\ MatchOp(Router, "GET", P_azcw) = Found("h2", <<KV("y", "z"), KV("y", "w")>>)

\* s1 and s2 are the same pattern up to the names of the parameters: they
\* end at the same node.
SameNode(s1, s2) == Len(s1) = Len(s2) /\ SamePos(s1, s2, Len(s1))

\* Call j is the last call of the history that ends where an earlier call
\* of the same method ended.
ReRegistered(j) ==
    /\ \E i \in DOMAIN log :
          i < j /\ log[i].method = log[j].method /\ SameNode(Segs(log[i]), Segs(log[j]))
    /\ \A k \in DOMAIN log :
          (k > j /\ log[k].method = log[j].method) => ~SameNode(Segs(log[k]), Segs(log[j]))

\* C8: re-registration is last-write-wins.  When call j ends at the node an
\* earlier call of the same method ended at (the same segments, parameters
\* at the same positions) and no later call does, every request that
\* follows that pattern and is found gets call j's handler, never the
\* earlier one.
C8_LastWriteWins ==
    \A j \in DOMAIN log : ReRegistered(j) =>
        \A p \in ReqPaths :
            ( /\ Follows(log[j].method, Segs(log[j]), ReqSegments[p])
              /\ MatchOp(Router, log[j].method, p).found )
            => MatchOp(Router, log[j].method, p).handler = log[j].handler

\* C8 for the patterns of at least one segment, where the request is also
\* found (not named in the results; it shows which part of C8 the code keeps).
C8_LastWriteWinsNonRoot ==
    \A j \in DOMAIN log : (ReRegistered(j) /\ Segs(log[j]) # <<>>) =>
        \A p \in ReqPaths :
            Follows(log[j].method, Segs(log[j]), ReqSegments[p]) =>
               /\ MatchOp(Router, log[j].method, p).found
               /\ MatchOp(Router, log[j].method, p).handler = log[j].handler

\* The method of the Add call a step makes.
StepMethod == log'[Len(log')].method

\* The router value after the step.
RouterNext == [trees |-> trees', nodes |-> nodes']

\* C9: method trees are independent.  A step Add(m, ...) leaves the result
\* of Match(m2, q) as it was for every other method m2 and every request
\* path q; and with /a -> h1 for GET and /a -> h2 for POST registered, GET /a
\* gives h1, POST /a gives h2 and DELETE /a is not found.
C9_MethodsIndependent ==
    /\ [][\A m2 \in Methods, q \in ReqPaths :
             (log' # log /\ m2 # StepMethod) =>
                MatchOp(RouterNext, m2, q) = MatchOp(Router, m2, q)]_vars
    /\ [](\A h1, h2 \in Handlers :
            LogIsBoth(Call("GET", P_a, h1), Call("POST", P_a, h2)) =>
               /\ MatchOp(Router, "GET", P_a) = Found(h1, <<>>)
               /\ MatchOp(Router, "POST", P_a) = Found(h2, <<>>)
               /\ MatchOp(Router, "DELETE", P_a) = NotFound)

\* GET /a was registered, then POST /a, and both are found.
C9_Witness ==
    /\ log = <<Call("GET", P_a, "h1"), Call("POST", P_a, "h2")>>
    /\ MatchOp(Router, "GET", P_a).found
    /\ MatchOp(Router, "POST", P_a).found

\* s2 is s1 followed by at least one more segment.
Extends(s2, s1) == Len(s2) > Len(s1) /\ SubSeq(s2, 1, Len(s1)) = s1

\* C10: a node can be terminal and have children.  When the history holds a
\* route and an extension of it for the same method, in either order, every
\* request that follows either pattern is found; when one route alone is
\* registered, no shorter request is found; and with /a -> h1 and /a/:x -> h2
\* registered, /a gives h1 with no params and /a/z gives h2 with [(x, z)],
\* while with /a/:x/c alone /a/z is not found.
C10_TerminalWithChildren ==
    /\ \A i \in DOMAIN log, j \in DOMAIN log :
          (log[i].method = log[j].method /\ Extends(Segs(log[j]), Segs(log[i]))) =>
             \A p \in ReqPaths :
                ( \/ Follows(log[i].method, Segs(log[i]), ReqSegments[p])
                  \/ Follows(log[j].method, Segs(log[j]), ReqSegments[p]) )
                => MatchOp(Router, log[i].method, p).found
    /\ Len(log) = 1 =>
          \A p \in ReqPaths :
             Len(ReqSegments[p]) < Len(Segs(log[1])) =>
                ~MatchOp(Router, log[1].method, p).found
    /\ \A h1, h2 \in Handlers :
          LogIsBoth(Call("GET", P_a, h1), Call("GET", P_ax, h2)) =>
             /\ MatchOp(Router, "GET", P_a) = Found(h1, <<>>)
             /\ MatchOp(Router, "GET", P_az) = Found(h2, <<KV("x", "z")>>)
    /\ \A h \in Handlers :
          log = <<Call("GET", P_axc, h)>> => MatchOp(Router, "GET", P_az) = NotFound

\* C10 with the shorter route spelled "/" or made of at least one segment
\* (not named in the results; it shows which part of C10 the code keeps).
C10_TerminalWithChildrenRegistered ==
    /\ \A i \in DOMAIN log, j \in DOMAIN log :
          ( /\ log[i].method = log[j].method
            /\ Extends(Segs(log[j]), Segs(log[i]))
            /\ (Segs(log[i]) # <<>> \/ log[i].path = <<"/">>) ) =>
             \A p \in ReqPaths :
                ( \/ Follows(log[i].method, Segs(log[i]), ReqSegments[p])
                  \/ Follows(log[j].method, Segs(log[j]), ReqSegments[p]) )
                => MatchOp(Router, log[i].method, p).found
    /\ Len(log) = 1 =>
          \A p \in ReqPaths :
             Len(ReqSegments[p]) < Len(Segs(log[1])) =>
                ~MatchOp(Router, log[1].method, p).found

\* -------------------------------------------------- the serving phase claims

\* The results the goroutines keep.
AllReturned == UNION { {returned[g][k] : k \in DOMAIN returned[g]} : g \in Goroutines }

\* C6: concurrent Match isolation.  With registration complete, whatever
\* the interleaving of the calls, each call returns the handler, params and
\* found flag that the same call returns when it runs alone.
C6_ConcurrentIsolation ==
    \A r \in AllReturned :
        [handler |-> r.handler, params |-> r.value, isNil |-> r.isNil, found |-> r.found]
            = MatchOp(Router, r.method, r.path)

\* Two calls that held buffers at the same time have both returned params.
C6_Witness ==
    \E r1 \in AllReturned, r2 \in AllReturned :
        /\ r1.overlapped /\ r2.overlapped
        /\ r1.path # r2.path
        /\ Len(r1.value) = 5 /\ Len(r2.value) = 2

\* C7: returned Params are caller-owned.  The elements of every slice a
\* caller keeps are the elements it had when it was returned, whatever the
\* calls made since, by this goroutine or another, wrote to the pooled
\* buffers.
C7_CallerOwned ==
    \A r \in AllReturned : ReadSlice(arrays, r.res) = r.value

\* A call returned five params (more than a pooled buffer holds) and a later
\* call, reusing its buffer, has overwritten the buffer's first element.
C7_Witness ==
    \E r \in AllReturned, g \in Goroutines :
        /\ Len(r.value) = 5
        /\ Len(r.value) > PoolCap
        /\ running[g].ptr = r.buf
        /\ running[g].params.len >= 1
        /\ arrays[r.buf][1] # r.value[1]

\* ------------------------------------------------------- not-found outcomes

\* The node reached from root after the first n of the segments, NilNode
\* once a segment has neither a static child nor a parameter child to go to.
RECURSIVE NodeAfter(_, _, _, _)
NodeAfter(ns, segments, n, root) ==
    IF n = 0 THEN root
    ELSE LET prev == NodeAfter(ns, segments, n - 1, root)
         IN  IF prev = NilNode THEN NilNode
             ELSE IF segments[n] \in DOMAIN ns[prev].children
             THEN ns[prev].children[segments[n]]
             ELSE ns[prev].paramChild

\* The three failure cases of a request (m, p).
NoTree(m) == m \notin DOMAIN trees
FallsOff(m, p) ==
    /\ m \in DOMAIN trees
    /\ NodeAfter(nodes, ReqSegments[p], Len(ReqSegments[p]), trees[m]) = NilNode
EndsNonTerminal(m, p) ==
    /\ m \in DOMAIN trees
    /\ NodeAfter(nodes, ReqSegments[p], Len(ReqSegments[p]), trees[m]) # NilNode
    /\ ~nodes[NodeAfter(nodes, ReqSegments[p], Len(ReqSegments[p]), trees[m])].isLeaf

\* A parameter child lies on the way of the request, before the failure.
BindsBeforeFailure(m, p) ==
    /\ m \in DOMAIN trees
    /\ \E n \in 1..Len(ReqSegments[p]) :
          LET prev == NodeAfter(nodes, ReqSegments[p], n - 1, trees[m])
          IN  /\ prev # NilNode
              /\ ReqSegments[p][n] \notin DOMAIN nodes[prev].children
              /\ nodes[prev].paramChild # NilNode

\* C11: not-found outcomes.  When the method has no tree, when a segment
\* has neither a matching static child nor a parameter child, and when the
\* segments are consumed at a node that is not terminal, Match returns
\* found = false with the zero handler and nil, empty Params; and no result
\* with found = false carries a handler or params.
C11_NotFoundOutcomes ==
    \A m \in Methods, p \in ReqPaths :
        /\ (NoTree(m) \/ FallsOff(m, p) \/ EndsNonTerminal(m, p)) =>
              MatchOp(Router, m, p) = NotFound
        /\ ~MatchOp(Router, m, p).found =>
              /\ MatchOp(Router, m, p).handler = ZeroT
              /\ MatchOp(Router, m, p).params = <<>>
              /\ MatchOp(Router, m, p).isNil

\* With /a/:x/c registered the three cases happen, two of them after the
\* parameter x was bound: /a/z ends at a node that is not terminal,
\* /a/z/c/w falls off the tree, and DELETE has no tree.
C11_Witness ==
    /\ log = <<Call("GET", P_axc, "h1")>>
    /\ EndsNonTerminal("GET", P_az) /\ BindsBeforeFailure("GET", P_az)
    /\ FallsOff("GET", P_azcw) /\ BindsBeforeFailure("GET", P_azcw)
    /\ NoTree("DELETE")
    /\ MatchOp(Router, "GET", P_az) = NotFound
    /\ MatchOp(Router, "GET", P_azcw) = NotFound
    /\ MatchOp(Router, "DELETE", P_az) = NotFound

\* C12: no duplicate parameter keys.  The Params of a successful Match
\* never holds two entries with the same key.
C12_NoDuplicateKeys ==
    \A m \in Methods, p \in ReqPaths :
        MatchOp(Router, m, p).found =>
            \A i, j \in DOMAIN MatchOp(Router, m, p).params :
                i # j => MatchOp(Router, m, p).params[i].Key #
                         MatchOp(Router, m, p).params[j].Key

\* ------------------------------------------------ the first name wins

\* The parameter nodes of a node sequence.
ParamNodes(ns) == {n \in 1..Len(ns) : HasColonPrefix(ns[n].path)}

\* The parameter child of the node /a of GET in router R, NilNode if none.
ParamChildOfA(R) ==
    IF "GET" \notin DOMAIN R.trees THEN NilNode
    ELSE NodeAfter(R.nodes, <<<<"a">>, <<"z">>>>, 2, R.trees["GET"])

\* C13: the first-registered parameter name wins.  An Add of /a/:y -> h made
\* when /a has a parameter child named x creates no parameter node and
\* leaves the name x, so that /a/z then gives h with [(x, z)]; and after
\* Add(/a/:x, h1), Add(/a/:y, h2) the tree holds one parameter node and /a/z
\* gives h2 with [(x, z)].
C13_FirstNameWins ==
    /\ [][\A h \in Handlers :
             ( /\ log' = Append(log, Call("GET", P_ay, h))
               /\ ParamChildOfA(Router) # NilNode
               /\ nodes[ParamChildOfA(Router)].paramName = <<"x">> )
             => /\ ParamNodes(nodes') = ParamNodes(nodes)
                /\ ParamChildOfA(RouterNext) = ParamChildOfA(Router)
                /\ MatchOp(RouterNext, "GET", P_az) = Found(h, <<KV("x", "z")>>)]_vars
    /\ [](\A h1, h2 \in Handlers :
            log = <<Call("GET", P_ax, h1), Call("GET", P_ay, h2)>> =>
               /\ Cardinality(ParamNodes(nodes)) = 1
               /\ MatchOp(Router, "GET", P_az) = Found(h2, <<KV("x", "z")>>))

\* /a/:x -> h1 was registered, then /a/:y -> h2, and /a/z is found.
C13_Witness ==
    /\ log = <<Call("GET", P_ax, "h1"), Call("GET", P_ay, "h2")>>
    /\ MatchOp(Router, "GET", P_az).found
    /\ MatchOp(Router, "GET", P_az).handler = "h2"

\* ------------------------------------------------------------ Params.Get

\* The indices of the entries of ps with the key.
EntriesWith(key) == {i \in DOMAIN ps : ps[i].Key = key}

\* C14: Params.Get returns the value of the entry of lowest index whose key
\* is the argument, and the empty string when no entry has that key; and
\* no call of Get changes the Params.
C14_GetFirst ==
    /\ [](\A r \in {got[k] : k \in DOMAIN got} :
            IF EntriesWith(r.key) = {} THEN r.value = <<>>
            ELSE \E i \in EntriesWith(r.key) :
                    /\ \A j \in EntriesWith(r.key) : i <= j
                    /\ r.value = ps[i].Value)
    /\ [][ps' = ps]_vars

\* Get was asked for a key that two entries have, with different values,
\* neither of them the first entry, and returned the value of the earlier.
C14_Witness ==
    /\ ps = <<[Key |-> <<"y">>, Value |-> <<"w">>], [Key |-> <<"x">>, Value |-> <<"z">>],
              [Key |-> <<"x">>, Value |-> <<"w">>]>>
    /\ got = <<[key |-> <<"x">>, value |-> <<"z">>]>>

\* --------------------------------------------------------------- the App

\* The step serves a request: it leaves another trace, response or Context.
ServeStep == <<order, response, ctx>>' # <<order, response, ctx>>

\* The calls of the history that registered a route the request follows.
RoutesFor(method, path) ==
    {k \in DOMAIN log :
        log[k].method = method /\ Follows(method, Segs(log[k]), splitPath(path))}

\* The last of them.
RouteOf(method, path) ==
    CHOOSE k \in RoutesFor(method, path) : \A k2 \in RoutesFor(method, path) : k2 <= k

\* The middleware wrapped around the route of call k, the outermost first:
\* the App's at the time of the call, then the group's.
Chain(k) == log[k].uses \o log[k].group

\* before-m1, ..., before-mk, handler, after-mk, ..., after-m1
NestedOrder(mws, kind) ==
    [i \in 1..Len(mws) |-> [at |-> "before", by |-> mws[i]]]
        \o <<[at |-> "handler", by |-> kind]>>
        \o [i \in 1..Len(mws) |-> [at |-> "after", by |-> mws[Len(mws) + 1 - i]]]

\* C15: middleware nesting order.  A request to a route runs the
\* middleware that Use had registered, in that order m1, ..., mk, when the
\* route was added, as before-m1, ..., before-mk, handler, after-mk, ...,
\* after-m1: the first registered is the outermost layer.
C15_NestingOrder ==
    [][(ServeStep /\ RoutesFor(ctx'.method, ctx'.path) # {}) =>
          \A k \in {RouteOf(ctx'.method, ctx'.path)} :
              order' = NestedOrder(Chain(k), log[k].handler)]_vars

\* Use(m1, m2), then GET /a, then a request GET /a: the trace of the test.
C15_Witness ==
    /\ middleware = <<"m1", "m2">>
    /\ log = <<[method |-> "GET", path |-> P_a, handler |-> "ok", uses |-> <<"m1", "m2">>,
                group |-> <<>>]>>
    /\ ctx.method = "GET" /\ ctx.path = P_a
    /\ order = <<[at |-> "before", by |-> "m1"], [at |-> "before", by |-> "m2"],
                 [at |-> "handler", by |-> "ok"],
                 [at |-> "after", by |-> "m2"], [at |-> "after", by |-> "m1"]>>

\* C16: dispatch of unmatched requests.  When the router finds no route for
\* (method, path) - no route was registered that the path follows, or only
\* under another method - ServeHTTP answers 404 and runs no handler and
\* no middleware.
C16_UnmatchedIs404 ==
    [][(ServeStep /\ ( \/ ~MatchOp(Router, ctx'.method, ctx'.path).found
                       \/ RoutesFor(ctx'.method, ctx'.path) = {} )) =>
          /\ response' = <<[status |-> 404, body |-> "404 Not Found"]>>
          /\ order' = <<>>]_vars

\* POST /a was requested with /a registered for GET only, middleware in
\* place: the answer is 404 and nothing ran.
C16_Witness ==
    /\ middleware # <<>>
    /\ \E k \in DOMAIN log : log[k].method = "GET" /\ log[k].path = P_a /\ log[k].uses # <<>>
    /\ \A k \in DOMAIN log : log[k].method = "GET"
    /\ ctx.method = "POST" /\ ctx.path = P_a
    /\ response = <<[status |-> 404, body |-> "404 Not Found"]>>
    /\ order = <<>>

\* The handler that ran last returned an error.
HandlerFailed ==
    \E i \in DOMAIN order :
        order[i].at = "handler" /\ order[i].by \in {"fail", "invalid", "wrote_fail", "direct_fail"}

\* C17: handler errors produce at most one response.  When the matched
\* handler returned an error, the ResponseWriter got the error handler's
\* status and body if the handler had written nothing, and nothing after
\* what the handler wrote if it had written: never two responses.
C17_OneResponse ==
    HandlerFailed =>
        /\ Len(response) <= 1
        /\ (\E i \in DOMAIN order : order[i].by \in {"fail"}) =>
              response = <<[status |-> 500, body |-> "Internal Server Error"]>>
        /\ (\E i \in DOMAIN order : order[i].by \in {"invalid"}) =>
              response = <<[status |-> 400, body |-> "Validation failed"]>>

\* C17 for the handlers that write through the Context (c.String, c.JSON,
\* ...), which sets written (not named in the results; it shows which part
\* of C17 the code keeps).
C17_OneResponseThroughContext ==
    (HandlerFailed /\ \A i \in DOMAIN order : order[i].by # "direct_fail") =>
        /\ Len(response) <= 1
        /\ (\E i \in DOMAIN order : order[i].by \in {"fail"}) =>
              response = <<[status |-> 500, body |-> "Internal Server Error"]>>
        /\ (\E i \in DOMAIN order : order[i].by \in {"invalid"}) =>
              response = <<[status |-> 400, body |-> "Validation failed"]>>
        /\ (\E i \in DOMAIN order : order[i].by \in {"wrote_fail"}) =>
              response = <<[status |-> 200, body |-> "OK"]>>

\* ------------------------------------------------------------ RequestID

\* The counter parts of the IDs set so far, and those drawn by the requests
\* whose header is not set yet.
IssuedCounts == {issued[i].count : i \in DOMAIN issued}
DrawnCounts == {handling[g].count : g \in {h \in Goroutines : handling[h].pc = "header"}}

\* C18: RequestID is unique under concurrency.  Whatever the interleaving
\* of the requests one middleware instance handles, no two X-Request-ID
\* headers have the same counter part (so no two IDs are equal), and the
\* counter parts issued or drawn are exactly 1 .. counter: none skipped,
\* none twice.
C18_UniqueRequestIDs ==
    /\ \A i, j \in DOMAIN issued : i # j =>
          /\ issued[i].count # issued[j].count
          /\ issued[i] # issued[j]
    /\ \A g, h \in Goroutines :
          (g # h /\ handling[g].pc = "header" /\ handling[h].pc = "header") =>
             handling[g].count # handling[h].count
    /\ IssuedCounts \cap DrawnCounts = {}
    /\ IssuedCounts \cup DrawnCounts = 1..counter

\* Two requests drew their counts before either set its header, the later
\* draw set its header first, at the same second, and a third followed.
C18_Witness ==
    /\ Len(issued) = 3
    /\ issued[1].count = 2 /\ issued[2].count = 1 /\ issued[3].count = 3
    /\ issued[1].time = issued[2].time

\* ------------------------------------------------------- Match reads only

\* C19: Match is read-only.  No step of a Match call, whatever its method
\* and path (an unknown method, an empty or malformed path) and whatever its
\* outcome, changes the method-to-tree map or a node's children, parameter
\* child, parameter name, handler or terminal flag; no tree is created.
C19_MatchReadOnly ==
    [][/\ DOMAIN trees' = DOMAIN trees
       /\ trees' = trees
       /\ Len(nodes') = Len(nodes)
       /\ \A n \in NodeIds :
             /\ nodes'[n].children = nodes[n].children
             /\ nodes'[n].paramChild = nodes[n].paramChild
             /\ nodes'[n].paramName = nodes[n].paramName
             /\ nodes'[n].handler = nodes[n].handler
             /\ nodes'[n].isLeaf = nodes[n].isLeaf]_vars

\* A call for a method without a tree and the empty path returned, and so
\* did a call for a malformed path that matched nothing, and the router
\* still has its two trees.
C19_Witness ==
    /\ \E r \in AllReturned : r.method = "DELETE" /\ r.path = <<>> /\ ~r.found
    /\ \E r \in AllReturned : r.path = <<"/", "/", "w", "/">> /\ ~r.found
    /\ DOMAIN trees = {"GET", "POST"}

\* ------------------------------------------------------ the tree only grows

\* C20: the tree is append-only.  Across every Add each method keeps the
\* root it has, no two methods share a root, every node stays where it is
\* (its parent's link to it is kept) with its path and parameter name, and
\* a terminal flag that is true stays true.
C20_AppendOnly ==
    /\ [][/\ \A m \in DOMAIN trees : m \in DOMAIN trees' /\ trees'[m] = trees[m]
          /\ Len(nodes') >= Len(nodes)
          /\ \A n \in NodeIds :
                /\ nodes'[n].path = nodes[n].path
                /\ nodes'[n].paramName = nodes[n].paramName
                /\ \A seg \in DOMAIN nodes[n].children :
                      /\ seg \in DOMAIN nodes'[n].children
                      /\ nodes'[n].children[seg] = nodes[n].children[seg]
                /\ nodes[n].paramChild # NilNode =>
                      nodes'[n].paramChild = nodes[n].paramChild
                /\ nodes[n].isLeaf => nodes'[n].isLeaf]_vars
    /\ [](\A m1, m2 \in DOMAIN trees :
            /\ trees[m1] \in NodeIds
            /\ nodes[trees[m1]].path = <<"/">>
            /\ m1 # m2 => trees[m1] # trees[m2])

\* /a/:x was registered and then /a/:x/c, through the nodes of the first:
\* four nodes, the parameter node still terminal.
C20_Witness ==
    /\ log = <<Call("GET", P_ax, "h1"), Call("GET", P_axc, "h2")>>
    /\ Len(nodes) = 4
    /\ \E n \in NodeIds : nodes[n].paramName = <<"x">> /\ nodes[n].isLeaf
                          /\ DOMAIN nodes[n].children = {<<"c">>}

\* --------------------------------------------------- the keys of the tree

\* The node the first n segments of a registered pattern lead to: through
\* the parameter child at a segment that begins with ":", through the
\* static child of that key otherwise; NilNode when there is no such child.
RECURSIVE PatternNode(_, _, _, _)
PatternNode(ns, pat, n, root) ==
    IF n = 0 THEN root
    ELSE LET prev == PatternNode(ns, pat, n - 1, root)
         IN  IF prev = NilNode THEN NilNode
             ELSE IF pat[n] # <<>> /\ Head(pat[n]) = ":" THEN ns[prev].paramChild
             ELSE IF pat[n] \in DOMAIN ns[prev].children THEN ns[prev].children[pat[n]]
             ELSE NilNode

\* C21: after any sequence of Add calls no key of a static-children map
\* begins with ":" or is the empty string, and every segment of a
\* registered pattern that begins with ":" is held by the parameter child
\* of the node before it, under its name.
C21_StaticKeys ==
    /\ \A n \in NodeIds : \A seg \in DOMAIN nodes[n].children :
          seg # <<>> /\ Head(seg) # ":"
    /\ \A k \in DOMAIN log : \A i \in 1..Len(Segs(log[k])) :
          /\ PatternNode(nodes, Segs(log[k]), i, trees[log[k].method]) # NilNode
          /\ Head(Segs(log[k])[i]) = ":" =>
                Head(nodes[PatternNode(nodes, Segs(log[k]), i, trees[log[k].method])].path) = ":"

\* /a//b and /a/:x were registered: the node a has the static key b and a
\* parameter child.
C21_Witness ==
    /\ LogIsBoth(Call("GET", <<"/", "a", "/", "/", "b">>, "h1"), Call("GET", P_ax, "h2"))
    /\ \E n \in NodeIds : DOMAIN nodes[n].children = {<<"b">>} /\ nodes[n].paramChild # NilNode

\* ------------------------------------------------- the values of the params

\* The characters of a string.
Chars(str) == {str[i] : i \in DOMAIN str}

\* C22: every value of the Params of a successful Match is a non-empty
\* string without "/" and is one whole segment of the normalized request
\* path; no parameter child is matched against an empty segment.
C22_ParamValues ==
    \A m \in Methods, p \in ReqPaths :
        MatchOp(Router, m, p).found =>
            \A i \in DOMAIN MatchOp(Router, m, p).params :
                /\ MatchOp(Router, m, p).params[i].Value # <<>>
                /\ "/" \notin Chars(MatchOp(Router, m, p).params[i].Value)
                /\ \E j \in DOMAIN ReqSegments[p] :
                      ReqSegments[p][j] = MatchOp(Router, m, p).params[i].Value

\* With /a/:x/c and /a/:x registered, /a//c, which has an empty segment
\* where the parameter is, binds x to c and not to the empty string.
C22_Witness ==
    /\ LogIsBoth(Call("GET", P_axc, "h1"), Call("GET", P_ax, "h2"))
    /\ MatchOp(Router, "GET", <<"/", "a", "/", "/", "c">>) = Found("h2", <<KV("x", "c")>>)

\* ------------------------------------------------ soundness and completeness

\* The pattern matches the request segment by segment: the same number of
\* segments, and at each position a parameter segment or the same literal.
PatMatches(pat, req) ==
    /\ Len(pat) = Len(req)
    /\ \A i \in 1..Len(pat) : HasColonPrefix(pat[i]) \/ pat[i] = req[i]

\* The calls of the history that registered, for the method, a pattern
\* that matches the request path.
Registered(m, p) ==
    {k \in DOMAIN log : log[k].method = m /\ PatMatches(Segs(log[k]), ReqSegments[p])}

\* C23: Match is sound.  Whenever Match(m, p) is found, an earlier Add for m
\* registered a pattern with as many segments as p, each a parameter
\* segment or the literal of p at its position; a path that only reaches an
\* intermediate node of a longer registration is not found.
C23_Soundness ==
    \A m \in Methods, p \in ReqPaths :
        MatchOp(Router, m, p).found => Registered(m, p) # {}

\* With /a/:x/c alone registered, /a/z/c is found and /a/z and /a, which
\* end at intermediate nodes, are not.
C23_Witness ==
    /\ log = <<Call("GET", P_axc, "h1")>>
    /\ MatchOp(Router, "GET", P_azc).found
    /\ ~MatchOp(Router, "GET", P_az).found
    /\ ~MatchOp(Router, "GET", P_a).found
    /\ NodeAfter(nodes, ReqSegments[P_az], 2, trees["GET"]) # NilNode

\* No node of the router has both a static child and a parameter child.
NoCollision == \A n \in NodeIds : ~HasBoth(n)

\* C24: Match is complete without collisions.  In a router where no node
\* has both a static child and a parameter child, Match(m, p) is found
\* exactly when some pattern registered for m matches p segment by segment.
C24_Completeness ==
    NoCollision =>
        \A m \in Methods, p \in ReqPaths :
            MatchOp(Router, m, p).found <=> Registered(m, p) # {}

\* The calls of the history whose handler Add attached: the path "/" as
\* spelled, or a path of at least one segment.
Attached(m, p) ==
    {k \in Registered(m, p) : log[k].path = <<"/">> \/ Segs(log[k]) # <<>>}

\* C24 over the registrations Add attached a handler for (not named in the
\* results; it shows which part of C24 the code keeps).
C24_CompletenessAttached ==
    NoCollision =>
        \A m \in Methods, p \in ReqPaths :
            MatchOp(Router, m, p).found <=> Attached(m, p) # {}

\* /a/:x and /a/:x/c are registered without a collision; /a/z and /a/z/c
\* are found, /a and /a/z/c/w are not.
C24_CompletenessAttachedWitness ==
    /\ LogIsBoth(Call("GET", P_ax, "h1"), Call("GET", P_axc, "h2"))
    /\ NoCollision
    /\ MatchOp(Router, "GET", P_az).found
    /\ MatchOp(Router, "GET", P_azc).found
    /\ ~MatchOp(Router, "GET", P_a).found
    /\ ~MatchOp(Router, "GET", P_azcw).found

\* ------------------------------------------------------ order independence

\* Two patterns name the same parameter position with different names.
NamesDiffer(s1, s2) ==
    \E i \in 1..Len(s1) :
        /\ SamePos(s1, s2, i)
        /\ HasColonPrefix(s1[i])
        /\ s1[i] # s2[i]

\* The router after the call of Add.
After(R, c) == AddOp(R, c.method, c.path, c.handler)

\* The calls Add may be given.
Calls == {Call(inp[1], inp[2], h) : inp \in AddInputs, h \in Handlers}

\* The pairs of calls of C25: the normalized patterns differ and no
\* parameter position is named twice with different names.
Commuting ==
    {pr \in Calls \X Calls :
        /\ splitPath(pr[1].path) # splitPath(pr[2].path)
        /\ ~NamesDiffer(splitPath(pr[1].path), splitPath(pr[2].path))}

\* C25: Add is order independent.  From every router with room for two more
\* registrations, two Add calls whose normalized patterns differ and that
\* do not name one parameter position with different names give, in either
\* order, routers on which Match returns the same result for every method
\* and path.
C25_OrderIndependence ==
    Len(log) < MaxAdds =>
        \A pr \in Commuting :
            SameMatches(After(After(Router, pr[1]), pr[2]),
                        After(After(Router, pr[2]), pr[1]))

\* /a/:x/c was registered; /a/b and /a/:x are a pair of C25 that, in either
\* order, make a collision at the node of /a and a terminal with children.
C25_Witness ==
    /\ log = <<Call("GET", P_axc, "h1")>>
    /\ <<Call("GET", P_ab, "h1"), Call("GET", P_ax, "h2")>> \in Commuting
    /\ LET R2 == After(After(Router, Call("GET", P_ab, "h1")), Call("GET", P_ax, "h2"))
           R3 == After(After(Router, Call("GET", P_ax, "h2")), Call("GET", P_ab, "h1"))
       IN  /\ MatchOp(R2, "GET", P_az) = Found("h2", <<KV("x", "z")>>)
           /\ MatchOp(R3, "GET", P_az) = Found("h2", <<KV("x", "z")>>)
           /\ MatchOp(R3, "GET", P_ab) = Found("h1", <<>>)
           /\ MatchOp(R2, "GET", P_azc) = Found("h1", <<KV("x", "z")>>)

\* ------------------------------------------------------- all-literal routes

\* The pattern has no parameter segment.
AllLiteral(segs) == \A i \in 1..Len(segs) : ~HasColonPrefix(segs[i])

\* A later call of the history used the method and normalized path of call k.
Overwritten(k) ==
    \E j \in DOMAIN log :
        j > k /\ log[j].method = log[k].method /\ Segs(log[j]) = Segs(log[k])

\* Call k's own path is found, with no params, and with call k's handler
\* unless a later call overwrote it.
StaysMatchable(k) ==
    LET r == MatchOp(Router, log[k].method, log[k].path)
    IN  /\ r.found
        /\ r.params = <<>>
        /\ ~Overwritten(k) => r.handler = log[k].handler

\* C26: a registered all-literal route stays matchable.  After Add(m, p, h)
\* with no parameter segment in p, Match(m, p) is found with empty params
\* after every later Add, and returns h unless a later Add used the same
\* method and the same normalized path.
C26_LiteralStays ==
    \A k \in DOMAIN log : AllLiteral(Segs(log[k])) => StaysMatchable(k)

\* C26 over the registrations Add attached a handler for (not named in the
\* results; it shows which part of C26 the code keeps).
C26_LiteralStaysAttached ==
    \A k \in DOMAIN log :
        (AllLiteral(Segs(log[k])) /\ (log[k].path = <<"/">> \/ Segs(log[k]) # <<>>))
            => StaysMatchable(k)

\* /a/b was registered and then /a/:x: /a/b still gives the first handler.
C26_LiteralStaysAttachedWitness ==
    /\ log = <<Call("GET", P_ab, "h1"), Call("GET", P_ax, "h2")>>
    /\ MatchOp(Router, "GET", P_ab) = Found("h1", <<>>)

\* ------------------------------------------------------ buffer accounting

\* The step is the return of goroutine g's call.
Returning(g) == running[g].pc # "idle" /\ running'[g].pc = "idle"

\* The step is goroutine g's paramsPool.Get.
Getting(g) == running[g].pc = "get" /\ running'[g].pc # "get"

\* The exit path of a returned Match.
ExitPath(r) ==
    IF r.method \notin DOMAIN trees THEN "no tree"
    ELSE IF r.path = <<"/">> THEN (IF r.found THEN "root hit" ELSE "root miss")
    ELSE IF r.found THEN "terminal hit"
    ELSE IF NodeAfter(nodes, splitPath(r.path), Len(splitPath(r.path)),
                      trees[r.method]) = NilNode THEN "fall-off"
    ELSE "non-terminal miss"

\* C27: pool buffer accounting.  A call that took a buffer holds it, out of
\* the pool, until it returns; its return, on every exit path, puts back
\* that one buffer, which was not in the pool (so none is put back twice);
\* the pool changes only at a Get or at a return; and a call for a method
\* without a tree returns with the pool untouched.
C27_BufferAccounting ==
    [][ /\ \A g \in Goroutines :
             /\ Returning(g) =>
                  /\ Holds(g)
                  /\ running[g].ptr \notin pool
                  /\ pool' = pool \cup {running[g].ptr}
                  /\ Cardinality(pool') = Cardinality(pool) + 1
             /\ Getting(g) =>
                  /\ Holds(g)'
                  /\ running'[g].ptr \notin pool'
                  /\ pool' = pool \ {running'[g].ptr}
             /\ (Holds(g) /\ ~Returning(g)) =>
                  /\ running'[g].ptr = running[g].ptr
                  /\ running[g].ptr \notin pool'
        /\ pool' # pool => \E g \in Goroutines : Returning(g) \/ Getting(g)
        /\ (begun' # begun /\ running' = running) =>
              /\ pool' = pool
              /\ \E g \in Goroutines :
                    /\ returned'[g] # <<>>
                    /\ returned'[g][1].method \notin DOMAIN trees
                    /\ returned'[g][1].buf = Idle.ptr
      ]_vars

\* Both goroutines are back from calls that took a buffer, one through the
\* terminal-hit exit and one through the fall-off exit, and the buffers
\* they used are in the pool.
C27_Witness ==
    /\ \A g \in Goroutines : running[g].pc = "idle" /\ returned[g] # <<>>
    /\ ExitPath(returned["g1"][1]) = "terminal hit"
    /\ ExitPath(returned["g2"][1]) = "fall-off"
    /\ returned["g1"][1].buf \in pool
    /\ returned["g2"][1].buf \in pool
    /\ returned["g1"][1].buf # returned["g2"][1].buf

\* ------------------------------------------- middleware bound at registration

\* The middleware that ran for the request, in the order it was entered.
Entered(ord) ==
    LET IsBefore(e) == e.at = "before"
        befores == SelectSeq(ord, IsBefore)
    IN  [i \in 1..Len(befores) |-> befores[i].by]

\* What ServeHTTP does for every request on router R.
Serves(R) == [req \in AppRequests |-> ServeHTTPOp(R, req[1], req[2])]

\* C28: middleware is bound at registration time.  The middleware that runs
\* for a route is the middleware Use had registered when the route was
\* added, followed (nested inside) by the middleware of the route's group;
\* and a call of Use changes what no request to a route added before it
\* runs and answers.
C28_BoundAtRegistration ==
    [][ /\ (ServeStep /\ RoutesFor(ctx'.method, ctx'.path) # {}) =>
              \A k \in {RouteOf(ctx'.method, ctx'.path)} :
                  Entered(order') = log[k].uses \o log[k].group
        /\ middleware' # middleware =>
              /\ log' = log
              /\ Serves(RouterNext) = Serves(Router)
      ]_vars

\* Use(m1), a group route GET /a/:x with gm1 and gm2, then Use(m2), and a
\* request GET /a/z: m1 ran outside gm1 and gm2, and m2 did not run.
C28_Witness ==
    /\ middleware = <<"m1", "m2">>
    /\ log = <<[method |-> "GET", path |-> P_ax, handler |-> "ok", uses |-> <<"m1">>,
                group |-> <<"gm1", "gm2">>]>>
    /\ ctx.method = "GET" /\ ctx.path = P_az
    /\ Entered(order) = <<"m1", "gm1", "gm2">>
    /\ response = <<[status |-> 200, body |-> "OK"]>>

\* ------------------------------------------------------------ rate limit

Missed == served.method = "GET" /\ ~served.before.found

\* The handler of a missed request answered 2xx without an error.
Cacheable ==
    /\ served.err = "nil"
    /\ served.captured.statusCode >= 200
    /\ served.captured.statusCode < 300

\* A missed request with a cacheable answer is stored under its key, and a
\* GET whose key the store holds is served the stored body with the
\* handler not invoked.
StoredAndServed ==
    /\ (Missed /\ Cacheable) =>
          served.cached = [found |-> TRUE, data |-> served.captured.body]
    /\ (served.method = "GET" /\ served.before.found) =>
          /\ served.hit
          /\ ~served.invoked
          /\ served.original.body = served.before.data
          /\ served.original.xcache = "HIT"

\* C30: a cache miss delivers the response.  For a GET whose key is not in
\* the store, the handler is invoked and the status and body captured from
\* it are written to the original response writer; a 2xx body is stored
\* under the key, and the next GET with the key is served from the store
\* without the handler being invoked.
C30_MissDelivers ==
    /\ Missed =>
          /\ served.invoked
          /\ served.captured.statusCode > 0 =>
                served.original.status = served.captured.statusCode
          /\ served.original.body = served.captured.body
    /\ StoredAndServed

\* The part of C30 about the store (not named in the results; it shows
\* which part of C30 the code keeps).
C30_StoredAndServed == StoredAndServed

\* A GET was served from the store: the body a missed request stored.
C30_StoredAndServedWitness ==
    /\ served.method = "GET"
    /\ served.hit
    /\ ~served.invoked
    /\ served.original = [status |-> 200, body |-> <<"B">>, xcache |-> "HIT"]

====
